---------------------------- MODULE Spec2Model ----------------------------
(***************************************************************************)
(* Rail-nexus optimisation core: Train / TrackSegment / Section domain     *)
(* model, ConflictDetector, TrainScheduler and OptimizationEngine.optimize.*)
(* Timestamps are integer minutes relative to the caller's base_time;      *)
(* every timedelta in the code is a whole number of minutes.               *)
(***************************************************************************)
EXTENDS Integers, Sequences, FiniteSets, TLC

VARIABLES
    trains,                 \* the caller's train list handed to optimize
    section,                \* the engine's Section (segments + min headway)
    pc,                     \* position inside OptimizationEngine.optimize
    conflicts,              \* result of detect_conflicts(trains)
    sorted_trains,          \* optimize_schedule: trains by priority
    idx,                    \* optimize_schedule: index of the train in the for loop
    segment_reservations,   \* optimize_schedule: segment_id -> list of (start, end, train_id)
    optimized_trains,       \* optimize_schedule: result list
    recommendations,        \* optimize_schedule: result list
    total_delay,            \* optimize_schedule: accumulated delay minutes
    search_time,            \* _find_optimal_slot: probe position of the while loop
    probes,                 \* passes through the while loop body for the current train
    throughput_improvement, \* optimisation result: percentage as a fraction num/den
    result,                 \* value returned by the last completed call
    optimization_history,   \* OptimizationEngine.optimization_history
    optimize_calls,         \* every result optimize has returned, in call order
    threads                 \* calls served concurrently: position and locals of each

vars == <<trains, section, pc, conflicts, sorted_trains, idx, segment_reservations,
          optimized_trains, recommendations, total_delay, search_time, probes,
          throughput_improvement, result, optimization_history, optimize_calls,
          threads>>

engine_vars == <<result, optimization_history, optimize_calls, threads>>

-----------------------------------------------------------------------------
(* Bounds of the model and program constants *)

MaxTrains == 3
MaxProbes == 125
MaxCalls == 103
MaxFailures == 1
MaxSessionCalls == 4
MaxCallers == 2
MaxSegmentCalls == 3
\* the last minute a datetime can hold (datetime.max), scaled to the model's clock
DateTimeMax == 1000

NoTime == -1
NoSegment == "None"
NoScore == -1

SearchWindowMinutes == 120
HoldDelayMinutes == 15
DefaultHeadwayMinutes == 5
HistoryLimit == 100

Min(a, b) == IF a < b THEN a ELSE b
Max(a, b) == IF a > b THEN a ELSE b

-----------------------------------------------------------------------------
(* models/enums.py, models/train.py *)

TrainTypes == {"FREIGHT", "PASSENGER", "EXPRESS"}

TrainTypeValue(train_type) ==
    CASE train_type = "FREIGHT" -> 1
      [] train_type = "PASSENGER" -> 2
      [] train_type = "EXPRESS" -> 3

calculate_priority(train_type, status) ==
    TrainTypeValue(train_type) * 100 + (IF status = "DELAYED" THEN -10 ELSE 0)

\* Train(...) with priority_score left to __post_init__
NewTrain(id, train_type, arrival, departure, position, status, actual) ==
    [train_id |-> id, train_type |-> train_type,
     scheduled_arrival |-> arrival, scheduled_departure |-> departure,
     current_position |-> position, status |-> status,
     actual_arrival |-> actual,
     priority_score |-> calculate_priority(train_type, status)]

TrainStatuses == {"SCHEDULED", "RUNNING", "DELAYED", "HELD", "COMPLETED"}

\* Train(..., priority_score=...): __post_init__ computes the score only if None
TrainWithScore(id, train_type, arrival, departure, position, status, actual, priority_score) ==
    LET computed == NewTrain(id, train_type, arrival, departure, position, status, actual)
    IN IF priority_score = NoScore THEN computed
       ELSE [computed EXCEPT !.priority_score = priority_score]

is_delayed(t) ==
    IF t.actual_arrival # NoTime /\ t.scheduled_arrival # NoTime
    THEN t.actual_arrival > t.scheduled_arrival
    ELSE t.status = "DELAYED"

\* Train.delay_minutes, for a train that has a scheduled arrival
Train_delay_minutes(t) ==
    IF ~is_delayed(t) \/ t.actual_arrival = NoTime
    THEN 0
    ELSE t.actual_arrival - t.scheduled_arrival

expected_travel_time(t) ==
    CASE t.train_type = "EXPRESS" -> 15
      [] t.train_type = "PASSENGER" -> 20
      [] t.train_type = "FREIGHT" -> 30
      [] OTHER -> 20

set_delay(t, delay_minutes) ==
    IF delay_minutes > 0
    THEN [t EXCEPT !.status = "DELAYED",
                   !.actual_arrival = IF t.actual_arrival = NoTime
                                      THEN t.scheduled_arrival + delay_minutes
                                      ELSE t.actual_arrival]
    ELSE [t EXCEPT !.status = "RUNNING"]

update_position(t, new_position) ==
    [t EXCEPT !.current_position = new_position,
              !.status = IF t.status = "SCHEDULED" THEN "RUNNING" ELSE t.status]

\* scheduled_departure or (scheduled_arrival + expected_travel_time)
EffectiveDeparture(t) ==
    IF t.scheduled_departure # NoTime
    THEN t.scheduled_departure
    ELSE t.scheduled_arrival + expected_travel_time(t)

-----------------------------------------------------------------------------
(* models/section.py *)

EffectiveCapacity(seg) ==
    IF seg.is_platform THEN seg.platform_capacity ELSE seg.capacity

is_available(seg) == Len(seg.current_occupancy) < EffectiveCapacity(seg)

HasSegment(sec, segment_id) ==
    \E k \in 1..Len(sec.track_segments) : sec.track_segments[k].segment_id = segment_id

\* Section.get_segment for an id that HasSegment
get_segment(sec, segment_id) ==
    LET k == CHOOSE k \in 1..Len(sec.track_segments) :
                 sec.track_segments[k].segment_id = segment_id
    IN sec.track_segments[k]

get_available_segments(sec) == SelectSeq(sec.track_segments, is_available)

IsPlatformSegment(seg) == seg.is_platform
IsNotPlatformSegment(seg) == ~seg.is_platform

get_platform_segments(sec) == SelectSeq(sec.track_segments, IsPlatformSegment)

Contains(seq, x) == \E i \in 1..Len(seq) : seq[i] = x

\* list.remove(x): the first occurrence is taken out
RemoveFirst(seq, x) ==
    LET first == CHOOSE i \in 1..Len(seq) :
                     seq[i] = x /\ \A j \in 1..(i - 1) : seq[j] # x
    IN SubSeq(seq, 1, first - 1) \o SubSeq(seq, first + 1, Len(seq))

\* mutant: an id already on the segment is appended again
add_train_NoDuplicateCheck(seg, train_id) ==
    IF is_available(seg)
    THEN [segment |-> [seg EXCEPT !.current_occupancy = Append(@, train_id)],
          returned |-> TRUE]
    ELSE [segment |-> seg, returned |-> FALSE]

\* TrackSegment.add_train: the segment afterwards and the value returned
add_train(seg, train_id) ==
    IF is_available(seg) /\ ~Contains(seg.current_occupancy, train_id)
    THEN [segment |-> [seg EXCEPT !.current_occupancy = Append(@, train_id)],
          returned |-> TRUE]
    ELSE [segment |-> seg, returned |-> FALSE]

\* TrackSegment.remove_train
remove_train(seg, train_id) ==
    IF Contains(seg.current_occupancy, train_id)
    THEN [segment |-> [seg EXCEPT !.current_occupancy = RemoveFirst(@, train_id)],
          returned |-> TRUE]
    ELSE [segment |-> seg, returned |-> FALSE]

\* position of the segment in track_segments (the _segment_lookup entry)
SegmentIndex(sec, segment_id) ==
    CHOOSE i \in 1..Len(sec.track_segments) :
        sec.track_segments[i].segment_id = segment_id

\* Section.assign_train_to_segment: the section afterwards and the value returned
assign_train_to_segment(sec, train_id, segment_id) ==
    IF HasSegment(sec, segment_id)
    THEN LET i == SegmentIndex(sec, segment_id)
             r == add_train(sec.track_segments[i], train_id)
         IN [section |-> [sec EXCEPT !.track_segments[i] = r.segment],
             returned |-> r.returned]
    ELSE [section |-> sec, returned |-> FALSE]

\* Section.remove_train_from_segment
remove_train_from_segment(sec, train_id, segment_id) ==
    IF HasSegment(sec, segment_id)
    THEN LET i == SegmentIndex(sec, segment_id)
             r == remove_train(sec.track_segments[i], train_id)
         IN [section |-> [sec EXCEPT !.track_segments[i] = r.segment],
             returned |-> r.returned]
    ELSE [section |-> sec, returned |-> FALSE]

\* Section.total_capacity: sum(seg.capacity for seg in self.track_segments)
total_capacity(sec) ==
    LET f[n \in 0..Len(sec.track_segments)] ==
            IF n = 0 THEN 0 ELSE f[n - 1] + sec.track_segments[n].capacity
    IN f[Len(sec.track_segments)]

\* Section.current_occupancy: sum(len(seg.current_occupancy) ...)
current_occupancy(sec) ==
    LET f[n \in 0..Len(sec.track_segments)] ==
            IF n = 0 THEN 0
            ELSE f[n - 1] + Len(sec.track_segments[n].current_occupancy)
    IN f[Len(sec.track_segments)]

\* Section.utilization_rate as the fraction num/den (0.0 when there is no capacity)
utilization_rate(sec) ==
    IF total_capacity(sec) > 0
    THEN [num |-> current_occupancy(sec), den |-> total_capacity(sec)]
    ELSE [num |-> 0, den |-> 1]

SegmentIds(sec) ==
    {sec.track_segments[k].segment_id : k \in 1..Len(sec.track_segments)}

-----------------------------------------------------------------------------
(* Stable sorts: Python's sorted / list.sort keep equal keys in input order *)

\* one insertion of a stable ascending sort on scheduled_arrival
InsertByArrival(s, t) ==
    LET p == Cardinality({i \in 1..Len(s) : s[i].scheduled_arrival <= t.scheduled_arrival})
    IN SubSeq(s, 1, p) \o <<t>> \o SubSeq(s, p + 1, Len(s))

\* sorted(trains, key=lambda t: t.scheduled_arrival)
SortByArrival(ts) ==
    LET f[n \in 0..Len(ts)] == IF n = 0 THEN <<>> ELSE InsertByArrival(f[n - 1], ts[n])
    IN f[Len(ts)]

\* schedule.sort(key=lambda x: x['start'])
InsertByStart(s, e) ==
    LET p == Cardinality({i \in 1..Len(s) : s[i].start <= e.start})
    IN SubSeq(s, 1, p) \o <<e>> \o SubSeq(s, p + 1, Len(s))

SortByStart(es) ==
    LET f[n \in 0..Len(es)] == IF n = 0 THEN <<>> ELSE InsertByStart(f[n - 1], es[n])
    IN f[Len(es)]

-----------------------------------------------------------------------------
(* optimization/conflict_detector.py *)

HasPosition(t) == t.current_position # NoSegment

\* keys of segment_schedules in insertion order
ScheduleKeys(ts) ==
    LET f[n \in 0..Len(ts)] ==
            IF n = 0 THEN <<>>
            ELSE IF ~HasPosition(ts[n])
                    \/ \E k \in 1..Len(f[n - 1]) : f[n - 1][k] = ts[n].current_position
                 THEN f[n - 1]
                 ELSE Append(f[n - 1], ts[n].current_position)
    IN f[Len(ts)]

\* segment_schedules[segment_id], in the order the trains were appended
SegmentSchedule(ts, segment_id) ==
    LET OnSegment(t) == t.current_position = segment_id
        on == SelectSeq(ts, OnSegment)
    IN [k \in 1..Len(on) |->
            [train |-> on[k], start |-> on[k].scheduled_arrival,
             end |-> EffectiveDeparture(on[k])]]

\* mutant: the cluster end follows the last joined interval instead of the max
RECURSIVE GrowCluster_LastEnd(_, _, _, _)
GrowCluster_LastEnd(schedule, j, overlapping_trains, current_end) ==
    IF j > Len(schedule) THEN overlapping_trains
    ELSE IF schedule[j].start < current_end
         THEN GrowCluster_LastEnd(schedule, j + 1,
                                  Append(overlapping_trains, schedule[j].train),
                                  schedule[j].end)
         ELSE overlapping_trains

\* the inner for j loop: trains joined to the cluster started at index i
RECURSIVE GrowCluster(_, _, _, _)
GrowCluster(schedule, j, overlapping_trains, current_end) ==
    IF j > Len(schedule) THEN overlapping_trains
    ELSE IF schedule[j].start < current_end
         THEN GrowCluster(schedule, j + 1,
                          Append(overlapping_trains, schedule[j].train),
                          Max(current_end, schedule[j].end))
         ELSE overlapping_trains

\* mutant: the scan for trains to join starts one entry late
OverlappingTrains_SkipsNeighbour(schedule, i) ==
    GrowCluster(schedule, i + 2, <<schedule[i].train>>, schedule[i].end)

OverlappingTrains(schedule, i) ==
    GrowCluster(schedule, i + 1, <<schedule[i].train>>, schedule[i].end)

TrainIdsOf(ts) == [k \in 1..Len(ts) |-> ts[k].train_id]

\* the for i loop over one segment's schedule
SegmentTrackConflicts(sec, segment_id, unsorted) ==
    LET schedule == SortByStart(unsorted)
        segment == get_segment(sec, segment_id)
        f[i \in 0..Len(schedule)] ==
            IF i = 0 THEN <<>>
            ELSE LET overlapping_trains == OverlappingTrains(schedule, i)
                 IN IF Len(overlapping_trains) > segment.capacity
                    THEN Append(f[i - 1],
                                [conflict_type |-> "same_track",
                                 train_ids |-> TrainIdsOf(overlapping_trains),
                                 segment_id |-> segment_id,
                                 scheduled_time |-> schedule[i].start,
                                 severity |-> Min(5, Len(overlapping_trains)),
                                 is_resolved |-> FALSE])
                    ELSE f[i - 1]
    IN f[Len(schedule)]

detect_track_conflicts(sec, ts) ==
    LET keys == ScheduleKeys(ts)
        f[n \in 0..Len(keys)] ==
            IF n = 0 THEN <<>>
            ELSE IF ~HasSegment(sec, keys[n]) THEN f[n - 1]
                 ELSE f[n - 1] \o SegmentTrackConflicts(sec, keys[n],
                                                        SegmentSchedule(ts, keys[n]))
    IN f[Len(keys)]

\* mutant: one positioned train is enough for a pair to share a path
trains_on_same_path_EitherPositioned(train1, train2) ==
    HasPosition(train1) \/ HasPosition(train2)

\* mutant: only trains on the same segment count as on the same path
trains_on_same_path_SameSegment(train1, train2) ==
    HasPosition(train1) /\ train1.current_position = train2.current_position

trains_on_same_path(train1, train2) == HasPosition(train1) /\ HasPosition(train2)

detect_headway_conflicts(sec, ts) ==
    LET min_headway == sec.min_headway_minutes
        f[i \in 0..Max(Len(ts) - 1, 0)] ==
            IF i = 0 THEN <<>>
            ELSE LET current_train == ts[i]
                     next_train == ts[i + 1]
                     actual_headway == next_train.scheduled_arrival
                                          - EffectiveDeparture(current_train)
                 IN IF trains_on_same_path(current_train, next_train)
                       /\ actual_headway < min_headway
                    THEN Append(f[i - 1],
                                [conflict_type |-> "headway",
                                 train_ids |-> <<current_train.train_id, next_train.train_id>>,
                                 segment_id |-> NoSegment,
                                 scheduled_time |-> next_train.scheduled_arrival,
                                 severity |-> 3,
                                 is_resolved |-> FALSE])
                    ELSE f[i - 1]
    IN f[Max(Len(ts) - 1, 0)]

\* mutant: the platform count is compared with the plain capacity
detect_platform_conflicts_PlainCapacity(sec, ts) ==
    LET platform_segments == get_platform_segments(sec)
        f[n \in 0..Len(platform_segments)] ==
            IF n = 0 THEN <<>>
            ELSE LET platform == platform_segments[n]
                     AtPlatform(t) == t.current_position = platform.segment_id
                     platform_trains == SelectSeq(ts, AtPlatform)
                 IN IF Len(platform_trains) > platform.capacity
                    THEN Append(f[n - 1],
                                [conflict_type |-> "platform",
                                 train_ids |-> TrainIdsOf(platform_trains),
                                 segment_id |-> platform.segment_id,
                                 scheduled_time |-> NoTime,
                                 severity |-> 4,
                                 is_resolved |-> FALSE])
                    ELSE f[n - 1]
    IN f[Len(platform_segments)]

detect_platform_conflicts(sec, ts) ==
    LET platform_segments == get_platform_segments(sec)
        f[n \in 0..Len(platform_segments)] ==
            IF n = 0 THEN <<>>
            ELSE LET platform == platform_segments[n]
                     AtPlatform(t) == t.current_position = platform.segment_id
                     platform_trains == SelectSeq(ts, AtPlatform)
                 IN IF Len(platform_trains) > platform.platform_capacity
                    THEN Append(f[n - 1],
                                [conflict_type |-> "platform",
                                 train_ids |-> TrainIdsOf(platform_trains),
                                 segment_id |-> platform.segment_id,
                                 scheduled_time |-> NoTime,
                                 severity |-> 4,
                                 is_resolved |-> FALSE])
                    ELSE f[n - 1]
    IN f[Len(platform_segments)]

detect_conflicts(sec, ts) ==
    LET by_arrival == SortByArrival(ts)
    IN detect_track_conflicts(sec, by_arrival)
         \o detect_headway_conflicts(sec, by_arrival)
         \o detect_platform_conflicts(sec, by_arrival)

-----------------------------------------------------------------------------
(* optimization/scheduler.py *)

\* mutant: descending but equal scores end up in reverse input order
InsertByPriority_Unstable(s, t) ==
    LET p == Cardinality({i \in 1..Len(s) : s[i].priority_score > t.priority_score})
    IN SubSeq(s, 1, p) \o <<t>> \o SubSeq(s, p + 1, Len(s))

\* mutant: reverse=True forgotten, lowest score first
InsertByPriority_Ascending(s, t) ==
    LET p == Cardinality({i \in 1..Len(s) : s[i].priority_score <= t.priority_score})
    IN SubSeq(s, 1, p) \o <<t>> \o SubSeq(s, p + 1, Len(s))

\* one insertion of sorted(trains, key=priority_score, reverse=True): stable
InsertByPriority(s, t) ==
    LET p == Cardinality({i \in 1..Len(s) : s[i].priority_score >= t.priority_score})
    IN SubSeq(s, 1, p) \o <<t>> \o SubSeq(s, p + 1, Len(s))

SortByPriority(ts) ==
    LET f[n \in 0..Len(ts)] == IF n = 0 THEN <<>> ELSE InsertByPriority(f[n - 1], ts[n])
    IN f[Len(ts)]

\* tuple comparison of (start, end, train_id)
ReservationLeq(a, b) ==
    \/ a[1] < b[1]
    \/ a[1] = b[1] /\ a[2] < b[2]
    \/ a[1] = b[1] /\ a[2] = b[2] /\ a[3] <= b[3]

\* existing_reservations.sort()
SortReservations(rs) ==
    LET Insert(s, e) ==
            LET p == Cardinality({i \in 1..Len(s) : ReservationLeq(s[i], e)})
            IN SubSeq(s, 1, p) \o <<e>> \o SubSeq(s, p + 1, Len(s))
        f[n \in 0..Len(rs)] == IF n = 0 THEN <<>> ELSE Insert(f[n - 1], rs[n])
    IN f[Len(rs)]

\* mutant: the candidate is compared with the reservation's start, not its end
slot_is_available_AfterStart(sec, start_time, end_time, reservations) ==
    LET min_headway == sec.min_headway_minutes
    IN \A k \in 1..Len(reservations) :
           \/ end_time + min_headway <= reservations[k][1]
           \/ start_time >= reservations[k][1] + min_headway

\* mutant: plain overlap test, the headway buffer is left out
slot_is_available_NoHeadway(sec, start_time, end_time, reservations) ==
    \A k \in 1..Len(reservations) :
        \/ end_time <= reservations[k][1]
        \/ start_time >= reservations[k][2]

slot_is_available(sec, start_time, end_time, reservations) ==
    LET min_headway == sec.min_headway_minutes
    IN \A k \in 1..Len(reservations) :
           \/ end_time + min_headway <= reservations[k][1]
           \/ start_time >= reservations[k][2] + min_headway

get_best_segment_for_train(sec, t) ==
    LET available_segments == get_available_segments(sec)
        non_platform_segments == SelectSeq(available_segments, IsNotPlatformSegment)
        platform_segments == SelectSeq(available_segments, IsPlatformSegment)
    IN IF Len(available_segments) = 0 THEN NoSegment
       ELSE IF t.train_type = "EXPRESS" /\ Len(non_platform_segments) > 0
            THEN non_platform_segments[1].segment_id
       ELSE IF t.train_type = "PASSENGER" /\ Len(platform_segments) > 0
            THEN platform_segments[1].segment_id
       ELSE available_segments[1].segment_id

\* train.current_position or self._get_best_segment_for_train(train)
PreferredSegment(sec, t) ==
    IF HasPosition(t) THEN t.current_position ELSE get_best_segment_for_train(sec, t)

\* mutant: the rescheduled copy is never passed to set_delay
create_optimized_train_NoSetDelay(original_train, arrival_time, departure_time, segment_id) ==
    [original_train EXCEPT !.scheduled_arrival = arrival_time,
                           !.scheduled_departure = departure_time,
                           !.current_position = segment_id]

\* mutant: the copy is built without the original's score, so __post_init__
\* computes one from the status at construction
create_optimized_train_Recomputes(original_train, arrival_time, departure_time, segment_id) ==
    LET optimized_train ==
            [original_train EXCEPT
                !.scheduled_arrival = arrival_time,
                !.scheduled_departure = departure_time,
                !.current_position = segment_id,
                !.priority_score = calculate_priority(original_train.train_type,
                                                      original_train.status)]
        delay_minutes == arrival_time - original_train.scheduled_arrival
    IN IF delay_minutes > 0 THEN set_delay(optimized_train, delay_minutes)
       ELSE optimized_train

create_optimized_train(original_train, arrival_time, departure_time, segment_id) ==
    LET optimized_train ==
            [original_train EXCEPT !.scheduled_arrival = arrival_time,
                                   !.scheduled_departure = departure_time,
                                   !.current_position = segment_id]
        delay_minutes == arrival_time - original_train.scheduled_arrival
    IN IF delay_minutes > 0 THEN set_delay(optimized_train, delay_minutes)
       ELSE optimized_train

\* mutant: the improvement is returned without the max(0.0, ...) clamp
calculate_throughput_improvement_Unclamped(original_trains, optimized) ==
    LET original_conflicts ==
            Cardinality({k \in 1..Len(original_trains) : is_delayed(original_trains[k])})
        optimized_conflicts ==
            Cardinality({k \in 1..Len(optimized) : is_delayed(optimized[k])})
    IN IF original_conflicts = 0 THEN [num |-> 0, den |-> 1]
       ELSE [num |-> (original_conflicts - optimized_conflicts) * 100,
             den |-> original_conflicts]

\* _calculate_throughput_improvement: the percentage as the fraction num/den
calculate_throughput_improvement(original_trains, optimized) ==
    LET original_conflicts ==
            Cardinality({k \in 1..Len(original_trains) : is_delayed(original_trains[k])})
        optimized_conflicts ==
            Cardinality({k \in 1..Len(optimized) : is_delayed(optimized[k])})
    IN IF original_conflicts = 0 THEN [num |-> 0, den |-> 1]
       ELSE [num |-> Max(0, (original_conflicts - optimized_conflicts) * 100),
             den |-> original_conflicts]

\* mutant: the delay of a shifted train is recommended but not added to the total
AcceptSlot_DelayUncounted(train, reservations, segment_id, arrival_time, departure_time) ==
    LET delay == arrival_time - train.scheduled_arrival
    IN /\ optimized_trains' = Append(optimized_trains,
              create_optimized_train(train, arrival_time, departure_time, segment_id))
       /\ segment_reservations' =
              [reservations EXCEPT ![segment_id] =
                  Append(@, <<arrival_time, departure_time, train.train_id>>)]
       /\ total_delay' = total_delay
       /\ recommendations' = Append(recommendations,
              IF delay > 0
              THEN [train_id |-> train.train_id, action |-> "delay",
                    delay_minutes |-> delay, new_arrival |-> arrival_time,
                    segment_id |-> segment_id]
              ELSE [train_id |-> train.train_id, action |-> "proceed",
                    segment_id |-> segment_id])
       /\ idx' = idx + 1
       /\ pc' = "slot"

\* optimize_schedule, "if new_schedule:" branch for the train of this iteration
AcceptSlot(train, reservations, segment_id, arrival_time, departure_time) ==
    LET delay == arrival_time - train.scheduled_arrival
    IN /\ optimized_trains' = Append(optimized_trains,
              create_optimized_train(train, arrival_time, departure_time, segment_id))
       /\ segment_reservations' =
              [reservations EXCEPT ![segment_id] =
                  Append(@, <<arrival_time, departure_time, train.train_id>>)]
       /\ total_delay' = IF delay > 0 THEN total_delay + delay ELSE total_delay
       /\ recommendations' = Append(recommendations,
              IF delay > 0
              THEN [train_id |-> train.train_id, action |-> "delay",
                    delay_minutes |-> delay, new_arrival |-> arrival_time,
                    segment_id |-> segment_id]
              ELSE [train_id |-> train.train_id, action |-> "proceed",
                    segment_id |-> segment_id])
       /\ idx' = idx + 1
       /\ pc' = "slot"

\* mutant: the held train is recorded but the hold penalty is not added
HoldTrain_NoPenalty(train) ==
    /\ optimized_trains' = Append(optimized_trains, train)
    /\ recommendations' = Append(recommendations,
           [train_id |-> train.train_id, action |-> "hold",
            recommended_delay |-> HoldDelayMinutes])
    /\ total_delay' = total_delay
    /\ idx' = idx + 1
    /\ pc' = "slot"

\* optimize_schedule, "else:" branch: no slot, the train is held
HoldTrain(train) ==
    /\ optimized_trains' = Append(optimized_trains, train)
    /\ recommendations' = Append(recommendations,
           [train_id |-> train.train_id, action |-> "hold",
            recommended_delay |-> HoldDelayMinutes])
    /\ total_delay' = total_delay + HoldDelayMinutes
    /\ idx' = idx + 1
    /\ pc' = "slot"

-----------------------------------------------------------------------------
(* optimization/optimizer.py: OptimizationEngine.optimize, step by step *)

NoResult == [status |-> "none"]

\* start_time of the call being served: calls are stamped in call order
Timestamp == Len(optimize_calls) + 1

\* mutant: a train without a segment of the section makes detection raise
DetectRaises_OnGaps(ts) ==
    \E k \in 1..Len(ts) : ts[k].current_position \notin {"track_1", "platform_1"}

\* sorted(trains, key=scheduled_arrival) compares the keys of two or more trains;
\* a None key makes the comparison raise TypeError
DetectRaises(ts) ==
    /\ Len(ts) >= 2
    /\ \E k \in 1..Len(ts) : ts[k].scheduled_arrival = NoTime

\* desired_start + timedelta(hours=2) beyond datetime.max raises OverflowError
SearchWindowOverflows(desired_start) == desired_start + SearchWindowMinutes > DateTimeMax

\* the dict returned by the except branch; the clock does not advance in the model
ErrorResult(error_message) ==
    [status |-> "error", timestamp |-> Timestamp, error_message |-> error_message,
     processing_time_ms |-> 0]

\* mutant: the except branch stores the error result in the history
HandleException_RecordsError(error_message) ==
    /\ result' = ErrorResult(error_message)
    /\ optimize_calls' = Append(optimize_calls, result')
    /\ optimization_history' = Append(optimization_history, result')
    /\ pc' = "returned"
    /\ UNCHANGED threads

\* mutant: the exception leaves optimize instead of being turned into a result
HandleException_Propagates(error_message) ==
    /\ pc' = "raised"
    /\ UNCHANGED engine_vars

\* except Exception as e: the error result is returned, the history is not touched
HandleException(error_message) ==
    /\ result' = ErrorResult(error_message)
    /\ optimize_calls' = Append(optimize_calls, result')
    /\ pc' = "returned"
    /\ UNCHANGED <<optimization_history, threads>>

\* Step 2: ConflictDetector.get_conflict_summary
get_conflict_summary(cs) ==
    [total_conflicts |-> Len(cs),
     resolved_conflicts |-> Len(SelectSeq(cs, LAMBDA c : c.is_resolved)),
     pending_conflicts |-> Len(SelectSeq(cs, LAMBDA c : ~c.is_resolved)),
     high_severity |-> Len(SelectSeq(cs, LAMBDA c : c.severity >= 4)),
     medium_severity |-> Len(SelectSeq(cs, LAMBDA c : c.severity = 3)),
     low_severity |-> Len(SelectSeq(cs, LAMBDA c : c.severity <= 2)),
     same_track_conflicts |-> Len(SelectSeq(cs, LAMBDA c : c.conflict_type = "same_track")),
     crossing_conflicts |-> Len(SelectSeq(cs, LAMBDA c : c.conflict_type = "crossing")),
     platform_conflicts |-> Len(SelectSeq(cs, LAMBDA c : c.conflict_type = "platform")),
     headway_conflicts |-> Len(SelectSeq(cs, LAMBDA c : c.conflict_type = "headway"))]

\* mutant: the rate is the share of conflicts still pending
resolution_rate_OfPending(cs) ==
    IF Len(cs) > 0
    THEN [num |-> Len(SelectSeq(cs, LAMBDA c : ~c.is_resolved)) * 100, den |-> Len(cs)]
    ELSE [num |-> 100, den |-> 1]

\* conflict_metrics.resolution_rate: a percentage as the fraction num/den
resolution_rate(cs) ==
    IF Len(cs) > 0
    THEN [num |-> Len(SelectSeq(cs, LAMBDA c : c.is_resolved)) * 100, den |-> Len(cs)]
    ELSE [num |-> 100, den |-> 1]

\* mutant: hold recommendations are left out of the breakdown
recommendation_counts_NoHold(recs) ==
    [proceed_recommendations |-> Len(SelectSeq(recs, LAMBDA r : r.action = "proceed")),
     delay_recommendations |-> Len(SelectSeq(recs, LAMBDA r : r.action = "delay")),
     hold_recommendations |-> 0]

\* the recommendations breakdown of _calculate_metrics
recommendation_counts(recs) ==
    [proceed_recommendations |-> Len(SelectSeq(recs, LAMBDA r : r.action = "proceed")),
     delay_recommendations |-> Len(SelectSeq(recs, LAMBDA r : r.action = "delay")),
     hold_recommendations |-> Len(SelectSeq(recs, LAMBDA r : r.action = "hold"))]

\* Step 4: _calculate_metrics; percentages are fractions num/den
calculate_metrics(ts, cs, recs) ==
    LET total_trains == Len(ts)
        delayed_trains == Len(SelectSeq(ts, is_delayed))
        counts == recommendation_counts(recs)
    IN [train_metrics |->
            [total_trains |-> total_trains,
             delayed_trains |-> delayed_trains,
             on_time_percentage |->
                 IF total_trains > 0
                 THEN [num |-> (total_trains - delayed_trains) * 100,
                       den |-> total_trains]
                 ELSE [num |-> 100, den |-> 1],
             express_trains |-> Len(SelectSeq(ts, LAMBDA t : t.train_type = "EXPRESS")),
             passenger_trains |-> Len(SelectSeq(ts, LAMBDA t : t.train_type = "PASSENGER")),
             freight_trains |-> Len(SelectSeq(ts, LAMBDA t : t.train_type = "FREIGHT"))],
        conflict_metrics |->
            [total_conflicts |-> Len(cs),
             resolved_conflicts |-> Len(SelectSeq(cs, LAMBDA c : c.is_resolved)),
             resolution_rate |-> resolution_rate(cs)],
        section_metrics |->
            [utilization_rate |-> utilization_rate(section),
             available_capacity |-> total_capacity(section) - current_occupancy(section),
             total_capacity |-> total_capacity(section)],
        recommendation_metrics |->
            [proceed_recommendations |-> counts.proceed_recommendations,
             delay_recommendations |-> counts.delay_recommendations,
             hold_recommendations |-> counts.hold_recommendations,
             total_delay_minutes |-> total_delay,
             throughput_improvement |-> throughput_improvement]]

\* Step 5: the dict compiled on success
SuccessResult ==
    [status |-> "success", timestamp |-> Timestamp, trains_analyzed |-> Len(trains),
     conflicts |-> conflicts, conflict_summary |-> get_conflict_summary(conflicts),
     recommendations |-> recommendations,
     optimized_trains |-> optimized_trains, total_delay_minutes |-> total_delay,
     throughput_improvement |-> throughput_improvement,
     metrics |-> calculate_metrics(trains, conflicts, recommendations),
     processing_time_ms |-> 0]

\* mutant: once the history is full the new entry is the one dropped
AppendHistory_KeepsOldest(history, entry) ==
    LET appended == Append(history, entry)
    IN IF Len(appended) > HistoryLimit
       THEN SubSeq(appended, 1, HistoryLimit)
       ELSE appended

\* append, then keep only the last 100 entries
AppendHistory(history, entry) ==
    LET appended == Append(history, entry)
    IN IF Len(appended) > HistoryLimit
       THEN SubSeq(appended, Len(appended) - HistoryLimit + 1, Len(appended))
       ELSE appended

\* mutant: the detector sorts the caller's list in place
DetectConflicts_SortsInPlace ==
    /\ pc = "detect"
    /\ conflicts' = detect_conflicts(section, trains)
    /\ trains' = SortByArrival(trains)
    /\ pc' = IF Len(conflicts') > 0 THEN "schedule" ELSE "default"
    /\ UNCHANGED engine_vars
    /\ UNCHANGED <<section, sorted_trains, idx, segment_reservations,
                   optimized_trains, recommendations, total_delay, search_time,
                   probes, throughput_improvement>>

\* Step 1: conflicts = self.conflict_detector.detect_conflicts(trains)
DetectConflicts ==
    /\ pc = "detect"
    /\ IF DetectRaises(trains)
       THEN /\ HandleException("TypeError")
            /\ UNCHANGED conflicts
       ELSE /\ conflicts' = detect_conflicts(section, trains)
            /\ pc' = IF Len(conflicts') > 0 THEN "schedule" ELSE "default"
            /\ UNCHANGED engine_vars
    /\ UNCHANGED <<trains, section, sorted_trains, idx, segment_reservations,
                   optimized_trains, recommendations, total_delay, search_time,
                   probes, throughput_improvement>>

\* mutant: the default result charges the hold penalty for every train
GenerateDefaultRecommendations_Penalty ==
    /\ pc = "default"
    /\ recommendations' = [k \in 1..Len(trains) |->
           [train_id |-> trains[k].train_id, action |-> "proceed",
            segment_id |-> trains[k].current_position]]
    /\ optimized_trains' = trains
    /\ total_delay' = HoldDelayMinutes * Len(trains)
    /\ throughput_improvement' = [num |-> 0, den |-> 1]
    /\ pc' = "done"
    /\ UNCHANGED <<trains, section, conflicts, sorted_trains, idx,
                   segment_reservations, search_time, probes>>
    /\ UNCHANGED engine_vars

\* _generate_default_recommendations
GenerateDefaultRecommendations ==
    /\ pc = "default"
    /\ recommendations' = [k \in 1..Len(trains) |->
           [train_id |-> trains[k].train_id, action |-> "proceed",
            segment_id |-> trains[k].current_position]]
    /\ optimized_trains' = trains
    /\ total_delay' = 0
    /\ throughput_improvement' = [num |-> 0, den |-> 1]
    /\ pc' = "done"
    /\ UNCHANGED <<trains, section, conflicts, sorted_trains, idx,
                   segment_reservations, search_time, probes>>
    /\ UNCHANGED engine_vars

\* mutant: the scheduler sorts the caller's list in place (trains.sort)
OptimizeScheduleBegin_SortsInPlace ==
    /\ pc = "schedule"
    /\ optimized_trains' = <<>>
    /\ recommendations' = <<>>
    /\ total_delay' = 0
    /\ sorted_trains' = SortByPriority(trains)
    /\ segment_reservations' = [s \in SegmentIds(section) |-> <<>>]
    /\ idx' = 1
    /\ pc' = "slot"
    /\ trains' = SortByPriority(trains)
    /\ UNCHANGED <<section, conflicts, search_time, probes,
                   throughput_improvement>>
    /\ UNCHANGED engine_vars

\* optimize_schedule up to the for loop
OptimizeScheduleBegin ==
    /\ pc = "schedule"
    /\ optimized_trains' = <<>>
    /\ recommendations' = <<>>
    /\ total_delay' = 0
    /\ sorted_trains' = SortByPriority(trains)
    /\ segment_reservations' = [s \in SegmentIds(section) |-> <<>>]
    /\ idx' = 1
    /\ pc' = "slot"
    /\ UNCHANGED <<trains, section, conflicts, search_time, probes,
                   throughput_improvement>>
    /\ UNCHANGED engine_vars

\* one iteration of the for loop, _find_optimal_slot up to the while loop
FindOptimalSlot ==
    /\ pc = "slot"
    /\ idx <= Len(sorted_trains)
    /\ LET train == sorted_trains[idx]
           preferred_segment == PreferredSegment(section, train)
       IN IF preferred_segment = NoSegment \/ ~HasSegment(section, preferred_segment)
          THEN /\ HoldTrain(train)
               /\ UNCHANGED <<segment_reservations, search_time, probes>>
               /\ UNCHANGED engine_vars
          ELSE LET reservations ==
                       [segment_reservations EXCEPT
                           ![preferred_segment] = SortReservations(@)]
                   desired_start == train.scheduled_arrival
                   desired_end == EffectiveDeparture(train)
               IN IF slot_is_available(section, desired_start, desired_end,
                                       reservations[preferred_segment])
                  THEN /\ AcceptSlot(train, reservations, preferred_segment,
                                     desired_start, desired_end)
                       /\ UNCHANGED <<search_time, probes>>
                       /\ UNCHANGED engine_vars
                  ELSE IF SearchWindowOverflows(desired_start)
                  THEN /\ HandleException("OverflowError")
                       /\ UNCHANGED <<segment_reservations, search_time, probes,
                                      optimized_trains, recommendations,
                                      total_delay, idx>>
                  ELSE /\ segment_reservations' = reservations
                       /\ search_time' = desired_start
                       /\ probes' = 0
                       /\ pc' = "probe"
                       /\ UNCHANGED <<optimized_trains, recommendations,
                                      total_delay, idx>>
                       /\ UNCHANGED engine_vars
    /\ UNCHANGED <<trains, section, conflicts, sorted_trains, throughput_improvement>>

\* mutant: a failed probe moves the search two headways on, skipping a candidate
ProbeSlot_SkipsCandidate ==
    /\ pc = "probe"
    /\ probes < MaxProbes
    /\ LET train == sorted_trains[idx]
           preferred_segment == PreferredSegment(section, train)
           max_search_time == train.scheduled_arrival + SearchWindowMinutes
           slot_end == search_time + expected_travel_time(train)
       IN IF search_time < max_search_time
          THEN IF slot_is_available(section, search_time, slot_end,
                                    segment_reservations[preferred_segment])
               THEN /\ AcceptSlot(train, segment_reservations, preferred_segment,
                                  search_time, slot_end)
                    /\ probes' = probes + 1
                    /\ UNCHANGED search_time
               ELSE /\ search_time' = search_time + 2 * section.min_headway_minutes
                    /\ probes' = probes + 1
                    /\ UNCHANGED <<pc, idx, segment_reservations, optimized_trains,
                                   recommendations, total_delay>>
          ELSE /\ HoldTrain(train)
               /\ UNCHANGED <<segment_reservations, search_time, probes>>
    /\ UNCHANGED <<trains, section, conflicts, sorted_trains, throughput_improvement>>
    /\ UNCHANGED engine_vars

\* one test of the while condition and, if it holds, one pass of the loop body
ProbeSlot ==
    /\ pc = "probe"
    /\ probes < MaxProbes
    /\ LET train == sorted_trains[idx]
           preferred_segment == PreferredSegment(section, train)
           max_search_time == train.scheduled_arrival + SearchWindowMinutes
           slot_end == search_time + expected_travel_time(train)
       IN IF search_time < max_search_time
          THEN IF slot_is_available(section, search_time, slot_end,
                                    segment_reservations[preferred_segment])
               THEN /\ AcceptSlot(train, segment_reservations, preferred_segment,
                                  search_time, slot_end)
                    /\ probes' = probes + 1
                    /\ UNCHANGED search_time
               ELSE /\ search_time' = search_time + section.min_headway_minutes
                    /\ probes' = probes + 1
                    /\ UNCHANGED <<pc, idx, segment_reservations, optimized_trains,
                                   recommendations, total_delay>>
          ELSE /\ HoldTrain(train)
               /\ UNCHANGED <<segment_reservations, search_time, probes>>
    /\ UNCHANGED <<trains, section, conflicts, sorted_trains, throughput_improvement>>
    /\ UNCHANGED engine_vars

\* the return statement of optimize_schedule
OptimizeScheduleReturn ==
    /\ pc = "slot"
    /\ idx > Len(sorted_trains)
    /\ throughput_improvement' = calculate_throughput_improvement(trains, optimized_trains)
    /\ pc' = "done"
    /\ UNCHANGED <<trains, section, conflicts, sorted_trains, idx, segment_reservations,
                   optimized_trains, recommendations, total_delay, search_time, probes>>
    /\ UNCHANGED engine_vars

\* Steps 4-5 and the history update: the result is compiled, appended to the
\* history, the history is cut to its last 100 entries, the result is returned
CompileResult ==
    /\ pc = "done"
    /\ result' = SuccessResult
    /\ optimization_history' = AppendHistory(optimization_history, result')
    /\ optimize_calls' = Append(optimize_calls, result')
    /\ pc' = "returned"
    /\ UNCHANGED <<trains, section, conflicts, sorted_trains, idx, segment_reservations,
                   optimized_trains, recommendations, total_delay, search_time, probes,
                   throughput_improvement, threads>>

Next ==
    \/ DetectConflicts
    \/ GenerateDefaultRecommendations
    \/ OptimizeScheduleBegin
    \/ FindOptimalSlot
    \/ ProbeSlot
    \/ OptimizeScheduleReturn
    \/ CompileResult

-----------------------------------------------------------------------------
(* Inputs: the section and the train lists a caller hands to optimize *)

\* DataService._create_sample_section: track_1 and platform_1, nothing assigned
SampleSegments ==
    << [segment_id |-> "track_1", capacity |-> 1, is_platform |-> FALSE,
        platform_capacity |-> 1, current_occupancy |-> <<>>],
       [segment_id |-> "platform_1", capacity |-> 1, is_platform |-> TRUE,
        platform_capacity |-> 2, current_occupancy |-> <<>>] >>

SampleSection(headway) ==
    [track_segments |-> SampleSegments, min_headway_minutes |-> headway]

\* how the caller builds a train: constructor status, then set_delay(delay) if delay > 0
Profile(train_type) == [train_type |-> train_type, status |-> "SCHEDULED", delay |-> 0]

OnTimeProfiles == {Profile(ty) : ty \in TrainTypes}

LateProfiles ==
    {[train_type |-> "FREIGHT", status |-> "SCHEDULED", delay |-> 10],
     [train_type |-> "EXPRESS", status |-> "DELAYED", delay |-> 10]}

\* <<scheduled_arrival, scheduled_departure - scheduled_arrival>>
ShortSlot == <<3, 10>>
LaterSlot == <<20, 10>>
LongSlot == <<0, 130>>

\* <<profile, slot, current_position>>; "ghost" is a segment id the section lacks
TrainOptions ==
    (OnTimeProfiles \X {ShortSlot} \X {"track_1", "platform_1", NoSegment})
      \cup ({Profile("EXPRESS")} \X {LaterSlot, LongSlot} \X {"track_1"})
      \cup {<<Profile("PASSENGER"), LaterSlot, "platform_1">>,
            <<Profile("FREIGHT"), ShortSlot, "ghost">>}
      \cup (LateProfiles \X {ShortSlot} \X {"track_1"})

BuildTrain(id, option) ==
    LET profile == option[1]
        arrival == option[2][1]
        built == NewTrain(id, profile.train_type, arrival, arrival + option[2][2],
                          option[3], profile.status, NoTime)
    IN IF profile.delay > 0 THEN set_delay(built, profile.delay) ELSE built

\* the list built from one choice of options per train; train_id = input index
TrainList(n, choice) == [k \in 1..n |-> BuildTrain(k, choice[k])]

InitLocals ==
    /\ pc = "detect"
    /\ conflicts = <<>>
    /\ sorted_trains = <<>>
    /\ idx = 0
    /\ segment_reservations = [s \in SegmentIds(section) |-> <<>>]
    /\ optimized_trains = <<>>
    /\ recommendations = <<>>
    /\ total_delay = 0
    /\ search_time = NoTime
    /\ probes = 0
    /\ throughput_improvement = [num |-> 0, den |-> 1]
    /\ result = NoResult
    /\ optimization_history = <<>>
    /\ optimize_calls = <<>>
    /\ threads = <<>>

Init ==
    /\ section = SampleSection(DefaultHeadwayMinutes)
    /\ \E n \in 0..MaxTrains : \E choice \in [1..n -> TrainOptions] :
           trains = TrainList(n, choice)
    /\ InitLocals

Spec == Init /\ [][Next]_vars

\* Section.min_headway_minutes is an unvalidated int: sections with headway 0
\* beside the default one
HeadwayValues == {0, DefaultHeadwayMinutes}

\* trains that compete for track_1, one that blocks it for the whole search
\* window, and one on the platform
ContendingOptions ==
    {option \in TrainOptions :
        /\ option[1].delay = 0
        /\ \/ option[3] = "track_1" /\ option[2] # LaterSlot
           \/ option[3] = "platform_1" /\ option[2] = ShortSlot
                 /\ option[1].train_type = "PASSENGER"}

InitAnyHeadway ==
    /\ section \in {SampleSection(headway) : headway \in HeadwayValues}
    /\ \E n \in 0..MaxTrains : \E choice \in [1..n -> ContendingOptions] :
           trains = TrainList(n, choice)
    /\ InitLocals

SpecAnyHeadway == InitAnyHeadway /\ [][Next]_vars

\* the sample section with its second platform, which holds one train
BottleneckSegments ==
    SampleSegments \o
    << [segment_id |-> "platform_2", capacity |-> 1, is_platform |-> TRUE,
        platform_capacity |-> 1, current_occupancy |-> <<>>] >>

\* trains of every type waiting at either platform, and EXPRESS trains on track_1
PlatformOptions ==
    (OnTimeProfiles \X {ShortSlot} \X {"platform_1", "platform_2"})
      \cup ({Profile("EXPRESS")} \X {ShortSlot, LongSlot} \X {"track_1"})

InitPlatforms ==
    /\ section = [track_segments |-> BottleneckSegments,
                  min_headway_minutes |-> DefaultHeadwayMinutes]
    /\ \E n \in 0..MaxTrains : \E choice \in [1..n -> PlatformOptions] :
           trains = TrainList(n, choice)
    /\ InitLocals

SpecPlatforms == InitPlatforms /\ [][Next]_vars

\* a slot one hour before the end of the calendar, and a train built with
\* scheduled_arrival None whose departure is minute 9
FarSlot == <<DateTimeMax - 60, 10>>
MissingArrivalSlot == <<NoTime, 10>>

\* Train does not validate its fields: callers can hand over such trains
UncheckedOptions ==
    ContendingOptions
      \cup ({Profile("EXPRESS"), Profile("FREIGHT")} \X {FarSlot} \X {"track_1"})
      \cup {<<Profile("PASSENGER"), MissingArrivalSlot, "platform_1">>}

InitAnyInput ==
    /\ section = SampleSection(DefaultHeadwayMinutes)
    /\ \E n \in 0..MaxTrains : \E choice \in [1..n -> UncheckedOptions] :
           trains = TrainList(n, choice)
    /\ InitLocals

SpecAnyInput == InitAnyInput /\ [][Next]_vars

-----------------------------------------------------------------------------
(* One engine serving many optimize calls, each call taken as one step *)

IsError(r) == r.status = "error"
IsSuccess(r) == r.status = "success"

\* optimize([]): nothing to detect, default recommendations, result appended
OptimizeSucceeds ==
    /\ Len(optimize_calls) < MaxCalls
    /\ result' = SuccessResult
    /\ optimization_history' = AppendHistory(optimization_history, result')
    /\ optimize_calls' = Append(optimize_calls, result')
    /\ pc' = "returned"
    /\ UNCHANGED <<trains, section, conflicts, sorted_trains, idx, segment_reservations,
                   optimized_trains, recommendations, total_delay, search_time, probes,
                   throughput_improvement, threads>>

\* optimize on a list whose sort raises: the except branch returns
OptimizeFails ==
    /\ Len(optimize_calls) < MaxCalls
    /\ Len(SelectSeq(optimize_calls, IsError)) < MaxFailures
    /\ HandleException("TypeError")
    /\ UNCHANGED <<trains, section, conflicts, sorted_trains, idx, segment_reservations,
                   optimized_trains, recommendations, total_delay, search_time, probes,
                   throughput_improvement>>

NextHistory ==
    \/ OptimizeSucceeds
    \/ OptimizeFails

InitHistory ==
    /\ section = SampleSection(DefaultHeadwayMinutes)
    /\ trains = <<>>
    /\ InitLocals

SpecHistory == InitHistory /\ [][NextHistory]_vars

-----------------------------------------------------------------------------
(* One engine: optimize calls, the read accessors and simulate_scenario *)

\* list[i:] of Python: a negative index counts from the end, both are clipped
SliceStart(n, i) == IF i < 0 THEN Max(n + i, 0) ELSE Min(i, n)

\* self.optimization_history[-limit:]
get_optimization_history(history, limit) ==
    SubSeq(history, SliceStart(Len(history), 0 - limit) + 1, Len(history))

\* the dict get_section_status returns; current_time is the clock of the model
get_section_status ==
    [section_info |-> section,
     current_time |-> Timestamp,
     optimization_count |-> Len(optimization_history),
     last_optimization |-> IF optimization_history # <<>>
                           THEN optimization_history[Len(optimization_history)].timestamp
                           ELSE NoTime]

HistoryLimits == {0, 1, 2, 10}
ScenarioNames == {"Default", "Rush hour"}

EngineLocals ==
    <<trains, section, pc, conflicts, sorted_trains, idx, segment_reservations,
      optimized_trains, recommendations, total_delay, search_time, probes,
      throughput_improvement>>

GetOptimizationHistory ==
    \E limit \in HistoryLimits :
        /\ result' = [call |-> "get_optimization_history", limit |-> limit,
                      returned |-> get_optimization_history(optimization_history, limit)]
        /\ UNCHANGED <<optimization_history, optimize_calls, threads>>
        /\ UNCHANGED EngineLocals

GetSectionStatus ==
    /\ result' = [call |-> "get_section_status", returned |-> get_section_status]
    /\ UNCHANGED <<optimization_history, optimize_calls, threads>>
    /\ UNCHANGED EngineLocals

\* simulate_scenario on the empty list: optimize runs and stores its result dict
\* in the history; the two scenario keys are then written into that same dict,
\* so they show in the returned value and in the stored entry
SimulateScenario ==
    \E scenario_name \in ScenarioNames :
        /\ Len(optimize_calls) < MaxSessionCalls
        /\ result' = SuccessResult @@ [scenario_name |-> scenario_name,
                                       scenario_timestamp |-> Timestamp]
        /\ optimization_history' = AppendHistory(optimization_history, result')
        /\ optimize_calls' = Append(optimize_calls, SuccessResult)
        /\ pc' = "returned"
        /\ UNCHANGED <<trains, section, conflicts, sorted_trains, idx,
                       segment_reservations, optimized_trains, recommendations,
                       total_delay, search_time, probes, throughput_improvement,
                       threads>>

\* a short session with the engine: at most MaxSessionCalls calls run optimize
OptimizeSucceedsInSession ==
    /\ Len(optimize_calls) < MaxSessionCalls
    /\ OptimizeSucceeds

OptimizeFailsInSession ==
    /\ Len(optimize_calls) < MaxSessionCalls
    /\ OptimizeFails

NextSession ==
    \/ OptimizeSucceedsInSession
    \/ OptimizeFailsInSession
    \/ SimulateScenario
    \/ GetOptimizationHistory
    \/ GetSectionStatus

SpecSession == InitHistory /\ [][NextSession]_vars

-----------------------------------------------------------------------------
(* optimize calls served by several threads on one engine: no lock is taken,  *)
(* so the statements of lines 68-72 of different calls interleave             *)

InFlight == {t \in 1..Len(threads) : threads[t].pc # "returned"}

EngineLocalsExceptPc ==
    <<trains, section, conflicts, sorted_trains, idx, segment_reservations,
      optimized_trains, recommendations, total_delay, search_time, probes,
      throughput_improvement>>

\* calls made one after the other before any concurrent caller arrives
SequentialOptimize ==
    /\ threads = <<>>
    /\ Len(optimize_calls) < HistoryLimit
    /\ OptimizeSucceeds

\* a caller's optimize([]) has compiled its result dict (lines 54-65); calls are
\* stamped in the order they start
CompileResultInThread ==
    /\ Len(threads) < MaxCallers
    /\ threads' = Append(threads,
           [pc |-> "append",
            result |-> [SuccessResult EXCEPT
                           !.timestamp = Len(optimize_calls) + Cardinality(InFlight) + 1],
            history |-> <<>>])
    /\ UNCHANGED <<result, optimization_history, optimize_calls, pc>>
    /\ UNCHANGED EngineLocalsExceptPc

\* line 68: self.optimization_history.append(result)
HistoryAppend ==
    \E t \in 1..Len(threads) :
        /\ threads[t].pc = "append"
        /\ optimization_history' = Append(optimization_history, threads[t].result)
        /\ threads' = [threads EXCEPT ![t].pc = "check"]
        /\ UNCHANGED <<result, optimize_calls, pc>>
        /\ UNCHANGED EngineLocalsExceptPc

\* line 71: if len(self.optimization_history) > 100
HistoryCheck ==
    \E t \in 1..Len(threads) :
        /\ threads[t].pc = "check"
        /\ threads' = [threads EXCEPT
               ![t].pc = IF Len(optimization_history) > HistoryLimit
                         THEN "slice" ELSE "return"]
        /\ UNCHANGED <<result, optimization_history, optimize_calls, pc>>
        /\ UNCHANGED EngineLocalsExceptPc

\* line 72, right-hand side: self.optimization_history[-100:] builds a new list
HistorySlice ==
    \E t \in 1..Len(threads) :
        /\ threads[t].pc = "slice"
        /\ threads' = [threads EXCEPT
               ![t].pc = "assign",
               ![t].history = get_optimization_history(optimization_history,
                                                       HistoryLimit)]
        /\ UNCHANGED <<result, optimization_history, optimize_calls, pc>>
        /\ UNCHANGED EngineLocalsExceptPc

\* line 72, assignment: the attribute is bound to the new list
HistoryAssign ==
    \E t \in 1..Len(threads) :
        /\ threads[t].pc = "assign"
        /\ optimization_history' = threads[t].history
        /\ threads' = [threads EXCEPT ![t].pc = "return"]
        /\ UNCHANGED <<result, optimize_calls, pc>>
        /\ UNCHANGED EngineLocalsExceptPc

\* line 75: return result
ReturnResult ==
    \E t \in 1..Len(threads) :
        /\ threads[t].pc = "return"
        /\ result' = threads[t].result
        /\ optimize_calls' = Append(optimize_calls, result')
        /\ threads' = [threads EXCEPT ![t].pc = "returned"]
        /\ UNCHANGED <<optimization_history, pc>>
        /\ UNCHANGED EngineLocalsExceptPc

NextConcurrentOptimize ==
    \/ SequentialOptimize
    \/ CompileResultInThread
    \/ HistoryAppend
    \/ HistoryCheck
    \/ HistorySlice
    \/ HistoryAssign
    \/ ReturnResult

SpecConcurrentOptimize == InitHistory /\ [][NextConcurrentOptimize]_vars

-----------------------------------------------------------------------------
(* A section whose segments trains enter and leave *)

OccupantIds == 1..(MaxTrains + 1)
TargetSegments == {"track_1", "platform_1", "ghost"}

AssignTrainToSegment ==
    \E train_id \in OccupantIds : \E segment_id \in TargetSegments :
        LET r == assign_train_to_segment(section, train_id, segment_id)
        IN /\ section' = r.section
           /\ result' = [call |-> "assign_train_to_segment", train_id |-> train_id,
                         segment_id |-> segment_id, returned |-> r.returned]
           /\ UNCHANGED <<trains, pc, conflicts, sorted_trains, idx,
                          segment_reservations, optimized_trains, recommendations,
                          total_delay, search_time, probes, throughput_improvement,
                          optimization_history, optimize_calls, threads>>

RemoveTrainFromSegment ==
    \E train_id \in OccupantIds : \E segment_id \in TargetSegments :
        LET r == remove_train_from_segment(section, train_id, segment_id)
        IN /\ section' = r.section
           /\ result' = [call |-> "remove_train_from_segment", train_id |-> train_id,
                         segment_id |-> segment_id, returned |-> r.returned]
           /\ UNCHANGED <<trains, pc, conflicts, sorted_trains, idx,
                          segment_reservations, optimized_trains, recommendations,
                          total_delay, search_time, probes, throughput_improvement,
                          optimization_history, optimize_calls, threads>>

NextSegments ==
    \/ AssignTrainToSegment
    \/ RemoveTrainFromSegment

\* the sample section with every segment empty
InitSegments ==
    /\ section = SampleSection(DefaultHeadwayMinutes)
    /\ trains = <<>>
    /\ InitLocals

SpecSegments == InitSegments /\ [][NextSegments]_vars

-----------------------------------------------------------------------------
(* TrackSegment.add_train / remove_train called by several threads on the    *)
(* segments of one section: the test and the list update are separate steps  *)

SharedSegments == {"track_1", "platform_1"}

SectionCallLocals ==
    <<trains, pc, conflicts, sorted_trains, idx, segment_reservations,
      optimized_trains, recommendations, total_delay, search_time, probes,
      throughput_improvement, result, optimization_history, optimize_calls>>

\* add_train, line 35: if self.is_available and train_id not in self.current_occupancy
AddTrainCheck ==
    \E train_id \in OccupantIds : \E segment_id \in SharedSegments :
        LET segment == get_segment(section, segment_id)
            passed == is_available(segment)
                         /\ ~Contains(segment.current_occupancy, train_id)
        IN /\ Len(threads) < MaxSegmentCalls
           /\ threads' = Append(threads,
                  [call |-> "add_train", train_id |-> train_id,
                   segment_id |-> segment_id,
                   pc |-> IF passed THEN "append" ELSE "returned",
                   returned |-> FALSE])
           /\ UNCHANGED section
           /\ UNCHANGED SectionCallLocals

\* add_train, lines 36-37: self.current_occupancy.append(train_id); return True
AddTrainAppend ==
    \E t \in 1..Len(threads) :
        /\ threads[t].pc = "append"
        /\ section' = [section EXCEPT
               !.track_segments[SegmentIndex(section, threads[t].segment_id)]
                   .current_occupancy = Append(@, threads[t].train_id)]
        /\ threads' = [threads EXCEPT ![t].pc = "returned", ![t].returned = TRUE]
        /\ UNCHANGED SectionCallLocals

\* remove_train, line 42: if train_id in self.current_occupancy
RemoveTrainCheck ==
    \E train_id \in OccupantIds : \E segment_id \in SharedSegments :
        LET segment == get_segment(section, segment_id)
        IN /\ Len(threads) < MaxSegmentCalls
           /\ threads' = Append(threads,
                  [call |-> "remove_train", train_id |-> train_id,
                   segment_id |-> segment_id,
                   pc |-> IF Contains(segment.current_occupancy, train_id)
                          THEN "remove" ELSE "returned",
                   returned |-> FALSE])
           /\ UNCHANGED section
           /\ UNCHANGED SectionCallLocals

\* remove_train, lines 43-44: self.current_occupancy.remove(train_id); return True.
\* list.remove raises ValueError when the id is no longer in the list
RemoveTrainRemove ==
    \E t \in 1..Len(threads) :
        LET i == SegmentIndex(section, threads[t].segment_id)
            occupancy == section.track_segments[i].current_occupancy
        IN /\ threads[t].pc = "remove"
           /\ IF Contains(occupancy, threads[t].train_id)
              THEN /\ section' = [section EXCEPT
                          !.track_segments[i].current_occupancy =
                              RemoveFirst(@, threads[t].train_id)]
                   /\ threads' = [threads EXCEPT ![t].pc = "returned",
                                                 ![t].returned = TRUE]
              ELSE /\ threads' = [threads EXCEPT ![t].pc = "raised"]
                   /\ UNCHANGED section
           /\ UNCHANGED SectionCallLocals

NextConcurrentSegments ==
    \/ AddTrainCheck
    \/ AddTrainAppend
    \/ RemoveTrainCheck
    \/ RemoveTrainRemove

SpecConcurrentSegments == InitSegments /\ [][NextConcurrentSegments]_vars

-----------------------------------------------------------------------------
(* One Train: construction, set_delay, update_position, the scheduler's copy *)

DelayValues == {0, 10, 25}
ShiftValues == {0, 5}
ExplicitScores == {0, 250}

OtherVarsOfTrain ==
    <<section, pc, conflicts, sorted_trains, idx, segment_reservations,
      recommendations, total_delay, search_time, probes, throughput_improvement,
      optimization_history, optimize_calls, threads>>

SetDelay ==
    \E delay_minutes \in DelayValues :
        /\ trains' = <<set_delay(trains[1], delay_minutes)>>
        /\ result' = [call |-> "set_delay", delay_minutes |-> delay_minutes]
        /\ UNCHANGED optimized_trains
        /\ UNCHANGED OtherVarsOfTrain

UpdatePosition ==
    \E new_position \in {"track_1", "platform_1"} :
        /\ trains' = <<update_position(trains[1], new_position)>>
        /\ result' = [call |-> "update_position", new_position |-> new_position]
        /\ UNCHANGED optimized_trains
        /\ UNCHANGED OtherVarsOfTrain

\* the scheduler copies the train into a slot that starts shift minutes later
CreateOptimizedTrain ==
    \E shift \in ShiftValues :
        /\ optimized_trains' =
               <<create_optimized_train(trains[1],
                                        trains[1].scheduled_arrival + shift,
                                        trains[1].scheduled_departure + shift,
                                        "track_1")>>
        /\ result' = [call |-> "_create_optimized_train", shift |-> shift]
        /\ UNCHANGED trains
        /\ UNCHANGED OtherVarsOfTrain

NextTrain ==
    \/ SetDelay
    \/ UpdatePosition
    \/ CreateOptimizedTrain

\* a train of any type and status has just been constructed with the given
\* priority_score argument (NoScore: argument left out)
InitTrain(scores) ==
    /\ section = SampleSection(DefaultHeadwayMinutes)
    /\ \E train_type \in TrainTypes : \E status \in TrainStatuses :
         \E priority_score \in scores :
           /\ trains = <<TrainWithScore(1, train_type, ShortSlot[1],
                                        ShortSlot[1] + ShortSlot[2], NoSegment,
                                        status, NoTime, priority_score)>>
           /\ result = [call |-> "Train", train_type |-> train_type,
                        status |-> status, priority_score |-> priority_score]
    /\ pc = "detect"
    /\ conflicts = <<>>
    /\ sorted_trains = <<>>
    /\ idx = 0
    /\ segment_reservations = [s \in SegmentIds(section) |-> <<>>]
    /\ optimized_trains = <<>>
    /\ recommendations = <<>>
    /\ total_delay = 0
    /\ search_time = NoTime
    /\ probes = 0
    /\ throughput_improvement = [num |-> 0, den |-> 1]
    /\ optimization_history = <<>>
    /\ optimize_calls = <<>>
    /\ threads = <<>>

InitComputedTrain == InitTrain({NoScore})
InitScoredTrain == InitTrain({NoScore} \cup ExplicitScores)

SpecComputedTrain == InitComputedTrain /\ [][NextTrain]_vars
SpecScoredTrain == InitScoredTrain /\ [][NextTrain]_vars

-----------------------------------------------------------------------------
(* Properties of TrainScheduler.optimize_schedule *)

SchedulerRan == Len(conflicts) > 0 /\ pc \in {"slot", "probe", "done"}
SchedulerDone == Len(conflicts) > 0 /\ pc = "done"

\* positions in optimized_trains / recommendations of the trains that got a slot
Scheduled == {k \in 1..Len(recommendations) : recommendations[k].action # "hold"}

\* trains with an accepted slot on the segment whose interval contains the instant
Occupants(segment_id, instant) ==
    {k \in Scheduled :
        /\ optimized_trains[k].current_position = segment_id
        /\ optimized_trains[k].scheduled_arrival <= instant
        /\ instant <= optimized_trains[k].scheduled_departure}

LastInstant ==
    LET ends == {optimized_trains[k].scheduled_departure : k \in 1..Len(optimized_trains)}
    IN IF ends = {} THEN 0 ELSE CHOOSE e \in ends : \A o \in ends : o <= e

\* C1: after optimize_schedule, at every instant the trains that were given a
\* slot on a segment and occupy it then are at most its effective capacity
C1_CapacityRespected ==
    SchedulerDone =>
        \A s \in 1..Len(section.track_segments) : \A instant \in 0..LastInstant :
            Cardinality(Occupants(section.track_segments[s].segment_id, instant))
                <= EffectiveCapacity(section.track_segments[s])

\* two trains were given slots on one segment, the second one after a shift
C1_Witness ==
    /\ SchedulerDone
    /\ \E j \in Scheduled : \E k \in Scheduled :
          /\ j # k
          /\ optimized_trains[j].current_position = optimized_trains[k].current_position
          /\ recommendations[k].action = "delay"

HeadwaySeparated(r1, r2) ==
    \/ r1[2] + section.min_headway_minutes <= r2[1]
    \/ r1[1] >= r2[2] + section.min_headway_minutes

\* C2: any two reservations recorded on one segment are a minimum headway apart,
\* in every state of the scheduler's run
C2_ReservationsHeadwaySeparated ==
    \A s \in DOMAIN segment_reservations :
        \A i \in 1..Len(segment_reservations[s]) :
            \A j \in 1..Len(segment_reservations[s]) :
                i # j => HeadwaySeparated(segment_reservations[s][i],
                                          segment_reservations[s][j])

C2_Witness ==
    \E s \in DOMAIN segment_reservations : Len(segment_reservations[s]) >= 3

\* C3: detect_conflicts on the scheduler's optimized_trains yields no more
\* conflicts than it yielded on the original trains
C3_ConflictReduced ==
    SchedulerDone =>
        Len(detect_conflicts(section, optimized_trains)) <= Len(conflicts)

\* C4: trains are processed by priority_score descending, equal scores in input
\* order (train_id is the input index), and recommendations follow that order
C4_StablePriorityOrder ==
    SchedulerRan =>
        /\ Len(sorted_trains) = Len(trains)
        /\ \A k \in 1..Len(trains) : \E i \in 1..Len(sorted_trains) :
               sorted_trains[i] = trains[k]
        /\ \A i \in 1..Len(sorted_trains) : \A j \in 1..Len(sorted_trains) :
               i < j =>
                 \/ sorted_trains[i].priority_score > sorted_trains[j].priority_score
                 \/ /\ sorted_trains[i].priority_score = sorted_trains[j].priority_score
                    /\ sorted_trains[i].train_id < sorted_trains[j].train_id
        /\ \A k \in 1..Len(recommendations) :
               recommendations[k].train_id = sorted_trains[k].train_id

\* a run where sorting moved a train ahead of two trains of equal score
C4_Witness ==
    /\ SchedulerDone
    /\ Len(recommendations) = 3
    /\ sorted_trains[1].train_id = 3
    /\ sorted_trains[2].priority_score = sorted_trains[3].priority_score

\* index in the processing order of the first train that targets the segment
FirstOnSegment(k) ==
    LET segment_id == PreferredSegment(section, sorted_trains[k])
    IN /\ HasSegment(section, segment_id)
       /\ \A j \in 1..(k - 1) : PreferredSegment(section, sorted_trains[j]) # segment_id

\* C5: the first train processed for a segment has the highest priority_score of
\* the trains targeting it, keeps its arrival and departure and gets PROCEED;
\* every train that is delayed or held on a segment comes after it, and a shift
\* is forward in time
C5_PriorityWins ==
    SchedulerDone =>
        \A k \in 1..Len(sorted_trains) :
            /\ FirstOnSegment(k) =>
                 /\ recommendations[k].action = "proceed"
                 /\ optimized_trains[k].scheduled_arrival = sorted_trains[k].scheduled_arrival
                 /\ optimized_trains[k].scheduled_departure
                        = sorted_trains[k].scheduled_departure
                 /\ \A j \in 1..Len(sorted_trains) :
                        PreferredSegment(section, sorted_trains[j])
                            = PreferredSegment(section, sorted_trains[k])
                        => sorted_trains[j].priority_score
                               <= sorted_trains[k].priority_score
            /\ optimized_trains[k].scheduled_arrival >= sorted_trains[k].scheduled_arrival

\* an EXPRESS and a delayed FREIGHT given later in the input compete for track_1:
\* the EXPRESS proceeds, the FREIGHT is delayed
C5_Witness ==
    /\ SchedulerDone
    /\ \E j \in 1..Len(sorted_trains) : \E k \in 1..Len(sorted_trains) :
          /\ j < k
          /\ sorted_trains[j].train_id > sorted_trains[k].train_id
          /\ sorted_trains[j].train_type = "EXPRESS"
          /\ sorted_trains[k].train_type = "FREIGHT"
          /\ sorted_trains[k].status = "DELAYED"
          /\ sorted_trains[j].current_position = "track_1"
          /\ sorted_trains[k].current_position = "track_1"
          /\ FirstOnSegment(j)
          /\ recommendations[j].action = "proceed"
          /\ recommendations[k].action = "delay"

\* no slot exists for the train against the reservations: its target segment is
\* unusable, or neither the desired interval nor any probe inside the search
\* window is available (stated for a positive minimum headway)
NoSlotFor(train, reservations) ==
    LET segment_id == PreferredSegment(section, train)
        start == train.scheduled_arrival
        headway == section.min_headway_minutes
    IN \/ segment_id = NoSegment
       \/ ~HasSegment(section, segment_id)
       \/ /\ ~slot_is_available(section, start, EffectiveDeparture(train),
                                reservations[segment_id])
          /\ \A n \in 0..SearchWindowMinutes :
                 start + n * headway < start + SearchWindowMinutes
                 => ~slot_is_available(section, start + n * headway,
                                       start + n * headway + expected_travel_time(train),
                                       reservations[segment_id])

\* C7: the step that finishes a train for which no slot exists appends the train
\* unchanged to optimized_trains, records no reservation, emits HOLD with
\* recommended_delay 15 and adds exactly 15 to the total delay
C7_HoldOnNoSlot ==
    [][(/\ pc \in {"slot", "probe"}
        /\ idx' = idx + 1
        /\ NoSlotFor(sorted_trains[idx], segment_reservations))
       => /\ optimized_trains' = Append(optimized_trains, sorted_trains[idx])
          /\ segment_reservations' = segment_reservations
          /\ recommendations' = Append(recommendations,
                 [train_id |-> sorted_trains[idx].train_id, action |-> "hold",
                  recommended_delay |-> 15])
          /\ total_delay' = total_delay + 15]_vars

\* one train was held because its segment is unknown, another because every
\* probe behind a long reservation on its own segment failed
C7_Witness ==
    /\ SchedulerDone
    /\ \E j \in 1..Len(recommendations) : \E k \in 1..Len(recommendations) :
          /\ recommendations[j].action = "hold"
          /\ recommendations[k].action = "hold"
          /\ ~HasSegment(section, sorted_trains[j].current_position)
          /\ HasSegment(section, sorted_trains[k].current_position)
          /\ optimized_trains[k] = sorted_trains[k]

\* C8: a train given a slot has delay = max(0, new arrival - original arrival);
\* delay > 0: the optimized train is DELAYED and a DELAY recommendation carries
\* that delay and the new arrival; delay = 0: a PROCEED recommendation
C8_DelayRecommendation ==
    SchedulerRan =>
        \A k \in Scheduled :
            LET delay == Max(0, optimized_trains[k].scheduled_arrival
                                    - sorted_trains[k].scheduled_arrival)
            IN /\ optimized_trains[k].train_id = sorted_trains[k].train_id
               /\ delay > 0 =>
                    /\ optimized_trains[k].status = "DELAYED"
                    /\ recommendations[k].action = "delay"
                    /\ recommendations[k].delay_minutes = delay
                    /\ recommendations[k].new_arrival = optimized_trains[k].scheduled_arrival
               /\ delay = 0 => recommendations[k].action = "proceed"

\* a SCHEDULED train was shifted and one kept its arrival
C8_Witness ==
    /\ SchedulerDone
    /\ \E j \in Scheduled : \E k \in Scheduled :
          /\ recommendations[j].action = "proceed"
          /\ recommendations[k].action = "delay"
          /\ sorted_trains[k].status = "SCHEDULED"
          /\ optimized_trains[k].status = "DELAYED"
          /\ optimized_trains[k].scheduled_arrival > sorted_trains[k].scheduled_arrival

-----------------------------------------------------------------------------
(* Properties of ConflictDetector.detect_conflicts *)

\* detect_conflicts has just returned (conflicts is not written afterwards)
Detected == pc \in {"schedule", "default"}

\* stable ascending order of scheduled arrival, stated by rank: a train comes
\* after every train that arrives earlier or arrives together with it and was
\* given earlier in the input (train_id is the input index)
ArrivesBefore(a, b) ==
    \/ a.scheduled_arrival < b.scheduled_arrival
    \/ a.scheduled_arrival = b.scheduled_arrival /\ a.train_id < b.train_id

ArrivalRank(t) ==
    1 + Cardinality({k \in 1..Len(trains) : ArrivesBefore(trains[k], t)})

ByArrivalRank ==
    [r \in 1..Len(trains) |->
        trains[CHOOSE k \in 1..Len(trains) : ArrivalRank(trains[k]) = r]]

ConflictsOfType(conflict_type) ==
    LET OfType(c) == c.conflict_type = conflict_type
    IN SelectSeq(conflicts, OfType)

InsufficientHeadway(current, next) ==
    /\ HasPosition(current)
    /\ HasPosition(next)
    /\ next.scheduled_arrival - EffectiveDeparture(current) < section.min_headway_minutes

AdjacentPairs ==
    {pair \in (1..Len(trains)) \X (1..Len(trains)) :
        ArrivalRank(trains[pair[2]]) = ArrivalRank(trains[pair[1]]) + 1}

\* C9: for every pair adjacent in arrival order a HEADWAY conflict naming the pair
\* exists iff both have a position (on whichever segments) and the gap from the
\* first's effective departure to the second's arrival is below the minimum
\* headway; there is one conflict per such pair, each of severity 3; two trains
\* on one segment arriving 3 minutes apart with headway 5 give exactly one
C9_HeadwayDetection ==
    Detected =>
        LET headway == ConflictsOfType("headway")
            short == {pair \in AdjacentPairs :
                         InsufficientHeadway(trains[pair[1]], trains[pair[2]])}
        IN /\ \A pair \in AdjacentPairs :
                  (pair \in short) <=>
                      \E k \in 1..Len(headway) :
                          headway[k].train_ids
                              = <<trains[pair[1]].train_id, trains[pair[2]].train_id>>
           /\ Len(headway) = Cardinality(short)
           /\ \A k \in 1..Len(headway) :
                  /\ headway[k].severity = 3
                  /\ \E pair \in AdjacentPairs :
                         headway[k].train_ids
                             = <<trains[pair[1]].train_id, trains[pair[2]].train_id>>
           /\ (/\ Len(trains) = 2
               /\ HasPosition(trains[1])
               /\ trains[1].current_position = trains[2].current_position
               /\ section.min_headway_minutes = 5
               /\ \/ trains[2].scheduled_arrival - trains[1].scheduled_arrival = 3
                  \/ trains[1].scheduled_arrival - trains[2].scheduled_arrival = 3)
              => Len(headway) = 1

\* the scenario of the claim, and in a second run a pair on different segments
C9_Witness ==
    /\ Detected
    /\ Len(trains) = 2
    /\ trains[1].current_position = "track_1"
    /\ trains[2].current_position = "track_1"
    /\ trains[1].scheduled_arrival = 0
    /\ trains[2].scheduled_arrival = 3
    /\ section.min_headway_minutes = 5
    /\ Len(ConflictsOfType("headway")) = 1
    /\ ConflictsOfType("headway")[1].train_ids = <<1, 2>>

\* the trains positioned on the segment, in arrival order
OnSegmentByRank(segment_id) ==
    LET OnSegment(t) == t.current_position = segment_id
    IN SelectSeq(ByArrivalRank, OnSegment)

MaxEndOf(q, i, j) ==
    LET ends == {EffectiveDeparture(q[l]) : l \in i..j}
    IN CHOOSE e \in ends : \A o \in ends : o <= e

\* last index of the forward chain started at i: every interval up to it starts
\* before the largest end among the intervals from i up to its predecessor
ChainEnd(q, i) ==
    LET joins == {m \in i..Len(q) :
                     \A j \in (i + 1)..m :
                         q[j].scheduled_arrival < MaxEndOf(q, i, j - 1)}
    IN CHOOSE m \in joins : \A o \in joins : o <= m

ExpectedTrackConflict(segment_id, q, i) ==
    [conflict_type |-> "same_track",
     train_ids |-> [k \in 1..(ChainEnd(q, i) - i + 1) |-> q[i + k - 1].train_id],
     segment_id |-> segment_id,
     scheduled_time |-> q[i].scheduled_arrival,
     severity |-> Min(5, ChainEnd(q, i) - i + 1),
     is_resolved |-> FALSE]

\* C10: on each segment of the section the SAME_TRACK conflicts are exactly one
\* per starting index whose forward chain cluster is larger than the segment's
\* plain capacity, listing that cluster with severity min(5, size); duplicates
\* of a train group are kept; segments unknown to the section yield none
C10_SameTrackDetection ==
    Detected =>
        LET same_track == ConflictsOfType("same_track")
        IN /\ \A k \in 1..Len(same_track) : HasSegment(section, same_track[k].segment_id)
           /\ \A s \in 1..Len(section.track_segments) :
                  LET segment == section.track_segments[s]
                      q == OnSegmentByRank(segment.segment_id)
                      overflowing == {i \in 1..Len(q) :
                                         ChainEnd(q, i) - i + 1 > segment.capacity}
                      emitted == {k \in 1..Len(same_track) :
                                     same_track[k].segment_id = segment.segment_id}
                  IN /\ {same_track[k] : k \in emitted}
                        = {ExpectedTrackConflict(segment.segment_id, q, i) :
                               i \in overflowing}
                     /\ Cardinality(emitted) = Cardinality(overflowing)

\* three trains on track_1: the chain from the first holds all three although
\* the second and third do not overlap each other, the chain from the second
\* stops at the third, and only the first chain overflows capacity 1
C10_Witness ==
    /\ Detected
    /\ Len(trains) = 3
    /\ \A k \in 1..3 : trains[k].current_position = "track_1"
    /\ \E k \in 1..Len(conflicts) :
          /\ conflicts[k].conflict_type = "same_track"
          /\ Len(conflicts[k].train_ids) = 3
          /\ conflicts[k].severity = 3
    /\ Len(ConflictsOfType("same_track")) = 1

\* C11: for each platform segment there is exactly one PLATFORM conflict, of
\* severity 4 and listing every train positioned on it, if the trains positioned
\* there outnumber its platform_capacity, and none otherwise; no PLATFORM
\* conflict is emitted for anything else
C11_PlatformDetection ==
    Detected =>
        LET platform == ConflictsOfType("platform")
        IN /\ \A k \in 1..Len(platform) :
                  \E s \in 1..Len(section.track_segments) :
                      /\ section.track_segments[s].is_platform
                      /\ section.track_segments[s].segment_id = platform[k].segment_id
           /\ \A s \in 1..Len(section.track_segments) :
                  LET segment == section.track_segments[s]
                      positioned == {k \in 1..Len(trains) :
                                        trains[k].current_position = segment.segment_id}
                      emitted == {k \in 1..Len(platform) :
                                     platform[k].segment_id = segment.segment_id}
                  IN segment.is_platform =>
                       IF Cardinality(positioned) > segment.platform_capacity
                       THEN /\ Cardinality(emitted) = 1
                            /\ \A k \in emitted :
                                   /\ platform[k].severity = 4
                                   /\ Len(platform[k].train_ids) = Cardinality(positioned)
                                   /\ {platform[k].train_ids[i] :
                                          i \in 1..Len(platform[k].train_ids)}
                                        = {trains[j].train_id : j \in positioned}
                       ELSE emitted = {}

\* the platform that holds one train hosts three: one PLATFORM conflict naming
\* all three, while two trains on the platform that holds two would give none
C11_Witness ==
    /\ Detected
    /\ Len(trains) = 3
    /\ \A k \in 1..3 : trains[k].current_position = "platform_2"
    /\ Len(ConflictsOfType("platform")) = 1
    /\ Len(ConflictsOfType("platform")[1].train_ids) = 3
    /\ ConflictsOfType("platform")[1].severity = 4

\* C12: a train without a current segment is named in no conflict
C12_UnpositionedNeverNamed ==
    Detected =>
        \A c \in 1..Len(conflicts) : \A i \in 1..Len(conflicts[c].train_ids) :
            \A k \in 1..Len(trains) :
                trains[k].train_id = conflicts[c].train_ids[i] => HasPosition(trains[k])

\* a train without a segment arrives together with two positioned trains that
\* conflict with each other, and sits between them in arrival order
C12_Witness ==
    /\ Detected
    /\ Len(trains) = 3
    /\ HasPosition(trains[1])
    /\ ~HasPosition(trains[2])
    /\ HasPosition(trains[3])
    /\ \A k \in 1..3 : trains[k].scheduled_arrival = 3
    /\ Len(conflicts) > 0

\* C13: detect_conflicts leaves the trains, the order of the caller's list and
\* the segments (their occupancy lists included) as they were
C13_DetectIsPure ==
    [][pc = "detect" => (trains' = trains /\ section' = section)]_vars

\* detection has run on a list that is not in arrival order and found conflicts
C13_Witness ==
    /\ Detected
    /\ Len(conflicts) > 0
    /\ trains # SortByArrival(trains)

\* C14: a successful call that found no conflict did not run the scheduler and
\* returns one PROCEED per input train, in input order, total delay 0,
\* throughput improvement 0 and the input trains as optimized_trains
C14_NoConflictDefault ==
    (pc = "returned" /\ result.status = "success" /\ Len(conflicts) = 0) =>
        /\ sorted_trains = <<>>
        /\ idx = 0
        /\ Len(result.recommendations) = Len(trains)
        /\ \A k \in 1..Len(trains) :
               /\ result.recommendations[k].train_id = trains[k].train_id
               /\ result.recommendations[k].action = "proceed"
        /\ result.total_delay_minutes = 0
        /\ result.throughput_improvement.num = 0
        /\ result.optimized_trains = trains

\* three trains, two of them positioned, without any conflict
C14_Witness ==
    /\ pc = "returned"
    /\ result.status = "success"
    /\ Len(conflicts) = 0
    /\ Len(trains) = 3
    /\ HasPosition(trains[1])
    /\ HasPosition(trains[2])
    /\ Len(result.recommendations) = 3

-----------------------------------------------------------------------------
(* Properties of OptimizationEngine *)

LastOf(q, n) == IF Len(q) > n THEN SubSeq(q, Len(q) - n + 1, Len(q)) ELSE q

\* C15: the history never holds more than 100 entries and is exactly the most
\* recent min(n, 100) successful results, in call order
C15_HistoryCapped ==
    /\ Len(optimization_history) <= 100
    /\ optimization_history = LastOf(SelectSeq(optimize_calls, IsSuccess), 100)

\* more than 100 calls succeeded and one failed: the oldest results are gone
C15_Witness ==
    /\ Len(optimization_history) = 100
    /\ Len(SelectSeq(optimize_calls, IsSuccess)) > 101
    /\ Len(SelectSeq(optimize_calls, IsError)) > 0
    /\ optimization_history[1].timestamp > 2

\* the scheduler is about to open the search window of a train whose desired
\* slot is taken, and the window ends after the last representable minute
ScheduleRaises ==
    /\ pc = "slot"
    /\ idx <= Len(sorted_trains)
    /\ LET train == sorted_trains[idx]
           segment_id == PreferredSegment(section, train)
       IN /\ HasSegment(section, segment_id)
          /\ ~slot_is_available(section, train.scheduled_arrival,
                                EffectiveDeparture(train),
                                segment_reservations[segment_id])
          /\ train.scheduled_arrival + SearchWindowMinutes > DateTimeMax

\* C16: a step of optimize in which detection or scheduling raises ends the
\* call with a returned result of status 'error' that carries an error_message
\* and processing_time_ms; the exception does not leave optimize
C16_ExceptionsBecomeErrorResults ==
    [][((pc = "detect" /\ DetectRaises(trains)) \/ ScheduleRaises)
       => /\ pc' = "returned"
          /\ result'.status = "error"
          /\ {"error_message", "processing_time_ms"} \subseteq DOMAIN result']_vars

\* the scheduler had placed a train when the next one's search window overflowed
C16_Witness ==
    /\ pc = "returned"
    /\ result.status = "error"
    /\ result.error_message = "OverflowError"
    /\ Len(conflicts) > 0
    /\ Len(optimized_trains) > 0

\* C17: a call whose trains lack a current segment or name a segment the
\* section does not have returns a result of status 'success'
C17_InputGapsAreNotErrors ==
    (/\ pc = "returned"
     /\ \E k \in 1..Len(trains) :
            ~HasPosition(trains[k]) \/ ~HasSegment(section, trains[k].current_position))
    => result.status = "success"

\* the scheduler ran on a list with a train without segment and a train on an
\* unknown segment, and the call succeeded
C17_Witness ==
    /\ pc = "returned"
    /\ result.status = "success"
    /\ Len(conflicts) > 0
    /\ \E k \in 1..Len(trains) : ~HasPosition(trains[k])
    /\ \E k \in 1..Len(trains) :
           HasPosition(trains[k]) /\ ~HasSegment(section, trains[k].current_position)

-----------------------------------------------------------------------------
(* Properties of TrackSegment / Section occupancy *)

NoDuplicates(seq) == \A i \in 1..Len(seq) : \A j \in 1..Len(seq) : seq[i] = seq[j] => i = j

OccupancyWithinCapacity ==
    \A s \in 1..Len(section.track_segments) :
        /\ NoDuplicates(section.track_segments[s].current_occupancy)
        /\ Len(section.track_segments[s].current_occupancy)
               <= EffectiveCapacity(section.track_segments[s])

\* the call just made was an add onto a segment of the section that was full or
\* already held the id
RefusedAdd ==
    /\ result'.call = "assign_train_to_segment"
    /\ HasSegment(section, result'.segment_id)
    /\ LET segment == get_segment(section, result'.segment_id)
       IN \/ Len(segment.current_occupancy) >= EffectiveCapacity(segment)
          \/ Contains(segment.current_occupancy, result'.train_id)

\* C18: from empty segments, after any sequence of adds and removes no occupancy
\* list holds an id twice or more ids than the effective capacity, and an add
\* that would exceed the capacity or repeat an id returns False and changes nothing
C18_OccupancyBounded ==
    /\ []OccupancyWithinCapacity
    /\ [][RefusedAdd => (result'.returned = FALSE /\ section' = section)]_vars

\* the platform holds its two trains and a third was just refused
C18_Witness ==
    /\ Len(get_segment(section, "platform_1").current_occupancy) = 2
    /\ Len(get_segment(section, "track_1").current_occupancy) = 1
    /\ result.call = "assign_train_to_segment"
    /\ result.segment_id = "platform_1"
    /\ result.returned = FALSE
    /\ ~Contains(get_segment(section, "platform_1").current_occupancy, result.train_id)

-----------------------------------------------------------------------------
(* Properties of Train *)

ScoreOfStatus(t) ==
    100 * TrainTypeValue(t.train_type) - (IF t.status = "DELAYED" THEN 10 ELSE 0)

\* C19: a train built without an explicit priority_score has, after any
\* set_delay and update_position calls, the score 100*rank - 10 while DELAYED
\* and 100*rank otherwise
C19_ScoreFollowsStatus ==
    \A k \in 1..Len(trains) : trains[k].priority_score = ScoreOfStatus(trains[k])

\* C20: the train just constructed has the priority_score argument if one was
\* given and 100*rank (- 10 if DELAYED) otherwise; FREIGHT on time is 100,
\* PASSENGER on time 200, EXPRESS delayed 290; the scheduler's copy of a train
\* has the train's score
C20_ScoreAtConstruction ==
    /\ result.call = "Train" =>
          /\ trains[1].priority_score =
                 IF result.priority_score # NoScore THEN result.priority_score
                 ELSE ScoreOfStatus(trains[1])
          /\ result.priority_score = NoScore =>
                 /\ (result.train_type = "FREIGHT" /\ result.status # "DELAYED")
                        => trains[1].priority_score = 100
                 /\ (result.train_type = "PASSENGER" /\ result.status # "DELAYED")
                        => trains[1].priority_score = 200
                 /\ (result.train_type = "EXPRESS" /\ result.status = "DELAYED")
                        => trains[1].priority_score = 290
    /\ \A k \in 1..Len(optimized_trains) :
          optimized_trains[k].priority_score = trains[k].priority_score

\* the copy of a train built with score 250 was shifted and marked DELAYED, and
\* still has 250
C20_Witness ==
    /\ result.call = "_create_optimized_train"
    /\ Len(optimized_trains) = 1
    /\ trains[1].status = "SCHEDULED"
    /\ optimized_trains[1].status = "DELAYED"
    /\ optimized_trains[1].priority_score = 250

-----------------------------------------------------------------------------
(* Termination *)

\* C6: the slot search of every train ends, whatever min_headway_minutes is:
\* each pass of the probe loop that does not end the search moves search_time
\* forward, towards the horizon at which the loop gives up
C6_ProbeAdvances ==
    [][(pc = "probe" /\ pc' = "probe") => search_time' > search_time]_vars

-----------------------------------------------------------------------------
(* Train.is_delayed *)

ArrivedLate(t) ==
    /\ t.actual_arrival # NoTime
    /\ t.scheduled_arrival # NoTime
    /\ t.actual_arrival > t.scheduled_arrival

\* C21: for every train the caller hands over and every train the scheduler
\* returns, is_delayed is true exactly when the actual arrival is later than
\* the scheduled arrival or the status is DELAYED
C21_DelayedIffLateOrStatus ==
    /\ \A k \in 1..Len(trains) :
          is_delayed(trains[k]) <=> (ArrivedLate(trains[k]) \/ trains[k].status = "DELAYED")
    /\ \A k \in 1..Len(optimized_trains) :
          is_delayed(optimized_trains[k])
              <=> (ArrivedLate(optimized_trains[k]) \/ optimized_trains[k].status = "DELAYED")

-----------------------------------------------------------------------------
(* Figures returned by TrainScheduler.optimize_schedule *)

DelayedCount(ts) == Cardinality({k \in 1..Len(ts) : is_delayed(ts[k])})

\* C22: the throughput_improvement the scheduler returns lies in [0, 100]; it
\* is 0 when no train of the original list is delayed, and otherwise
\* max(0, (originalDelayed - optimizedDelayed) / originalDelayed * 100), the
\* delayed trains counted by is_delayed before and after the pass
C22_ThroughputImprovement ==
    SchedulerDone =>
        LET originalDelayed == DelayedCount(trains)
            optimizedDelayed == DelayedCount(optimized_trains)
            num == throughput_improvement.num
            den == throughput_improvement.den
        IN /\ den > 0
           /\ 0 <= num
           /\ num <= 100 * den
           /\ originalDelayed = 0 => num = 0
           /\ originalDelayed > 0 =>
                 num * originalDelayed
                     = den * Max(0, (originalDelayed - optimizedDelayed) * 100)

\* two of the trains came in delayed and one of them is still delayed after the
\* pass: the improvement is 50 percent
C22_Witness ==
    /\ SchedulerDone
    /\ DelayedCount(trains) = 2
    /\ DelayedCount(optimized_trains) = 1
    /\ throughput_improvement.num = 50 * throughput_improvement.den

\* minutes a recommendation stands for: its delay_minutes for DELAY, 15 for HOLD
RecommendedMinutes(rec) ==
    CASE rec.action = "delay" -> rec.delay_minutes
      [] rec.action = "hold" -> 15
      [] OTHER -> 0

RECURSIVE SumOfRecommendedMinutes(_)
SumOfRecommendedMinutes(recs) ==
    IF recs = <<>> THEN 0
    ELSE RecommendedMinutes(Head(recs)) + SumOfRecommendedMinutes(Tail(recs))

\* C23: when the recommendations of a run are complete, total_delay_minutes is
\* not negative and equals the sum of delay_minutes over the DELAY
\* recommendations plus 15 for every HOLD recommendation of that run
C23_TotalDelayIsSum ==
    pc = "done" =>
        /\ total_delay >= 0
        /\ total_delay = SumOfRecommendedMinutes(recommendations)

\* a run with a shifted train and a held train: the total is the shift plus 15
C23_Witness ==
    /\ SchedulerDone
    /\ \E j \in 1..Len(recommendations) : \E k \in 1..Len(recommendations) :
          /\ recommendations[j].action = "delay"
          /\ recommendations[k].action = "hold"
          /\ total_delay = recommendations[j].delay_minutes + 15

-----------------------------------------------------------------------------
(* Properties of the engine's accessors *)

\* the last call served was the named accessor, and result is what it returned
ReturnedBy(call) == "call" \in DOMAIN result /\ result.call = call

\* C24: get_optimization_history(N) returns the most recent min(N, len(history))
\* entries in chronological order, for every N >= 0
C24_MostRecentN ==
    ReturnedBy("get_optimization_history") =>
        /\ Len(result.returned) <= result.limit
        /\ result.returned
              = LastOf(optimization_history,
                       Min(result.limit, Len(optimization_history)))

\* C25: get_section_status reports as optimization_count the number of optimize
\* runs performed on the engine and as last_optimization the timestamp of the
\* most recent run, None only if optimize was never called
C25_StatusCountsRuns ==
    ReturnedBy("get_section_status") =>
        /\ result.returned.optimization_count = Len(optimize_calls)
        /\ result.returned.last_optimization
              = IF optimize_calls = <<>> THEN NoTime
                ELSE optimize_calls[Len(optimize_calls)].timestamp

\* C26: a simulate_scenario call leaves optimization_history, and with it the
\* run count and last-run timestamp of the section status, as it was before the
\* call
C26_SimulateIsStateless ==
    [][("scenario_name" \in DOMAIN result')
          => optimization_history' = optimization_history]_vars

-----------------------------------------------------------------------------
(* Concurrent callers *)

ElementsOf(seq) == {seq[i] : i \in 1..Len(seq)}

\* C27: when optimize calls on one engine interleave, once all of them have
\* returned the history holds at most 100 entries, as many as min(n, 100) for
\* n successful results, and none of the most recent min(n, 100) successful
\* results is missing from it
C27_NoResultLost ==
    InFlight = {} =>
        LET successes == SelectSeq(optimize_calls, IsSuccess)
        IN /\ Len(optimization_history) <= 100
           /\ Len(optimization_history) = Min(Len(successes), 100)
           /\ ElementsOf(LastOf(successes, 100)) \subseteq ElementsOf(optimization_history)

\* C28: under any interleaving of add_train / remove_train calls on the same
\* TrackSegment, the occupancy list never holds more ids than the effective
\* capacity and never holds an id twice
C28_ConcurrentOccupancyBounded ==
    \A s \in 1..Len(section.track_segments) :
        LET occupancy == section.track_segments[s].current_occupancy
        IN /\ Len(occupancy) <= EffectiveCapacity(section.track_segments[s])
           /\ \A i \in 1..Len(occupancy) : \A j \in 1..Len(occupancy) :
                 occupancy[i] = occupancy[j] => i = j

-----------------------------------------------------------------------------
(* Section.utilization_rate *)

\* C29: in every state reached from an empty section by assign_train_to_segment
\* and remove_train_from_segment calls, the section's current occupancy is at
\* most its total capacity, so utilization_rate lies between 0.0 and 1.0
C29_UtilizationWithinUnit ==
    /\ current_occupancy(section) <= total_capacity(section)
    /\ 0 <= utilization_rate(section).num
    /\ utilization_rate(section).num <= utilization_rate(section).den

-----------------------------------------------------------------------------
(* The slot search of TrainScheduler._find_optimal_slot *)

\* the reservations the search of the k-th train met on the segment: the slots
\* accepted for the trains scheduled before it
ReservationsBefore(k, segment_id) ==
    LET earlier == SelectSeq([j \in 1..(k - 1) |-> j],
                             LAMBDA j : /\ j \in Scheduled
                                        /\ optimized_trains[j].current_position = segment_id)
    IN [i \in 1..Len(earlier) |->
           <<optimized_trains[earlier[i]].scheduled_arrival,
             optimized_trains[earlier[i]].scheduled_departure,
             optimized_trains[earlier[i]].train_id>>]

\* the probe n headways after the desired arrival, of length expected_travel_time
ProbeAvailable(train, n, reservations) ==
    LET start == train.scheduled_arrival + n * section.min_headway_minutes
    IN slot_is_available(section, start, start + expected_travel_time(train),
                         reservations)

\* C30: a train given a slot keeps its desired interval when that is available;
\* otherwise its arrival is desired_arrival + k*min_headway for the smallest
\* k >= 0 inside the 2-hour window whose interval of length
\* expected_travel_time is available; every DELAY is a positive multiple of
\* the minimum headway and shorter than 120 minutes
C30_EarliestAvailableProbe ==
    SchedulerDone =>
        \A k \in Scheduled :
            LET train == sorted_trains[k]
                desired == train.scheduled_arrival
                headway == section.min_headway_minutes
                arrival == optimized_trains[k].scheduled_arrival
                departure == optimized_trains[k].scheduled_departure
                reservations ==
                    ReservationsBefore(k, optimized_trains[k].current_position)
            IN /\ IF slot_is_available(section, desired, EffectiveDeparture(train),
                                       reservations)
                  THEN arrival = desired /\ departure = EffectiveDeparture(train)
                  ELSE \E n \in 0..SearchWindowMinutes :
                          /\ arrival = desired + n * headway
                          /\ arrival < desired + 120
                          /\ departure = arrival + expected_travel_time(train)
                          /\ ProbeAvailable(train, n, reservations)
                          /\ \A m \in 0..(n - 1) :
                                 ~ProbeAvailable(train, m, reservations)
               /\ recommendations[k].action = "delay" =>
                     /\ recommendations[k].delay_minutes < 120
                     /\ \E n \in 1..SearchWindowMinutes :
                            recommendations[k].delay_minutes = n * headway

\* one train's desired interval was taken and the probe at its desired arrival
\* fitted, so it proceeds with a shorter stay; another was shifted by seven
\* headways, past two reservations
C30_Witness ==
    /\ SchedulerDone
    /\ \E j \in Scheduled : \E k \in Scheduled :
          /\ recommendations[j].action = "proceed"
          /\ optimized_trains[j].scheduled_departure
                 # EffectiveDeparture(sorted_trains[j])
          /\ recommendations[k].action = "delay"
          /\ recommendations[k].delay_minutes = 7 * section.min_headway_minutes

-----------------------------------------------------------------------------
(* Frame of OptimizationEngine.optimize *)

\* the input train with the given id
InputTrain(train_id) ==
    trains[CHOOSE k \in 1..Len(trains) : trains[k].train_id = train_id]

\* C31: no step of optimize changes the caller's trains (schedule, status,
\* actual arrival, position, priority_score) or the section's occupancy lists;
\* a rescheduled train is returned as a new value beside the untouched input
C31_InputsUnchanged ==
    /\ [][trains' = trains /\ section' = section]_vars
    /\ [](pc = "returned" /\ IsSuccess(result) =>
            \A k \in 1..Len(result.recommendations) :
                result.recommendations[k].action = "delay" =>
                    /\ result.optimized_trains[k].scheduled_arrival
                          = result.recommendations[k].new_arrival
                    /\ InputTrain(result.recommendations[k].train_id).scheduled_arrival
                          = result.recommendations[k].new_arrival
                               - result.recommendations[k].delay_minutes)

\* optimize has returned a shifted, DELAYED copy of a train that is still
\* SCHEDULED at its own arrival in the caller's list
C31_Witness ==
    /\ pc = "returned"
    /\ IsSuccess(result)
    /\ \E k \in 1..Len(result.recommendations) :
          /\ result.recommendations[k].action = "delay"
          /\ result.optimized_trains[k].status = "DELAYED"
          /\ InputTrain(result.recommendations[k].train_id).status = "SCHEDULED"
          /\ InputTrain(result.recommendations[k].train_id).actual_arrival = NoTime
          /\ InputTrain(result.recommendations[k].train_id).scheduled_arrival
                 < result.optimized_trains[k].scheduled_arrival

-----------------------------------------------------------------------------
(* C32 *)

\* number of entries of seq that carry this train id
EntriesFor(seq, train_id) == Len(SelectSeq(seq, LAMBDA e : e.train_id = train_id))

\* C32: a successful result accounts for each input train exactly once:
\* recommendations and optimized_trains each hold exactly one entry per input
\* train id and nothing else, so the proceed, delay and hold counts of the
\* metrics add up to trains_analyzed
C32_EachTrainAccountedOnce ==
    pc = "returned" /\ IsSuccess(result) =>
        /\ result.trains_analyzed = Len(trains)
        /\ Len(result.recommendations) = result.trains_analyzed
        /\ Len(result.optimized_trains) = result.trains_analyzed
        /\ \A k \in 1..Len(trains) :
              /\ EntriesFor(result.recommendations, trains[k].train_id) = 1
              /\ EntriesFor(result.optimized_trains, trains[k].train_id) = 1
        /\ result.metrics.recommendation_metrics.proceed_recommendations
             + result.metrics.recommendation_metrics.delay_recommendations
             + result.metrics.recommendation_metrics.hold_recommendations
             = result.trains_analyzed

\* a returned result with a proceed, a delay and a hold recommendation
C32_Witness ==
    /\ pc = "returned" /\ IsSuccess(result)
    /\ result.metrics.recommendation_metrics.proceed_recommendations = 1
    /\ result.metrics.recommendation_metrics.delay_recommendations = 1
    /\ result.metrics.recommendation_metrics.hold_recommendations = 1

-----------------------------------------------------------------------------
(* C33 *)

\* C33: a failed optimize call leaves the history unchanged: a step that
\* returns a result of status 'error' keeps optimization_history as it was,
\* and no entry of the history is an error result
C33_ErrorLeavesHistory ==
    /\ [][optimize_calls' # optimize_calls /\ IsError(result')
            => optimization_history' = optimization_history]_vars
    /\ [](\A k \in 1..Len(optimization_history) : ~IsError(optimization_history[k]))

\* a call failed on an engine whose history held two results
C33_Witness ==
    /\ pc = "returned"
    /\ "status" \in DOMAIN result
    /\ IsError(result)
    /\ optimize_calls # <<>>
    /\ optimize_calls[Len(optimize_calls)] = result
    /\ Len(optimization_history) >= 2

-----------------------------------------------------------------------------
(* C34, C35 *)

\* input positions of the trains positioned on the segment
PositionedOn(segment_id) ==
    {k \in 1..Len(trains) : trains[k].current_position = segment_id}

\* the trains at these input positions all occupy their segment at one instant:
\* each interval runs from scheduled_arrival up to the effective departure
ShareInstant(group) ==
    \E t \in {trains[k].scheduled_arrival : k \in group} :
        \A k \in group :
            /\ trains[k].scheduled_arrival <= t
            /\ t < EffectiveDeparture(trains[k])

IdsListed(c) == {c.train_ids[k] : k \in 1..Len(c.train_ids)}

C35_SameTrackSound ==
    Detected =>
        \A c \in 1..Len(conflicts) :
            conflicts[c].conflict_type = "same_track" =>
                LET listed == {k \in 1..Len(trains) :
                                  trains[k].train_id \in IdsListed(conflicts[c])}
                IN /\ Cardinality(listed)
                        > get_segment(section, conflicts[c].segment_id).capacity
                   /\ ShareInstant(listed)

-----------------------------------------------------------------------------
(* C36, C37 *)

\* the scheduler produced the returned result: optimize takes that branch
\* exactly when detection found a conflict
SchedulerReturned == pc = "returned" /\ IsSuccess(result) /\ Len(conflicts) > 0

NamedInConflict(train_id) ==
    \E c \in 1..Len(result.conflicts) : train_id \in IdsListed(result.conflicts[c])

\* C36: whenever the scheduler runs, a train that no detected conflict names
\* receives a PROCEED recommendation and keeps its scheduled arrival
C36_UninvolvedTrainsProceed ==
    SchedulerReturned =>
        \A k \in 1..Len(result.recommendations) :
            ~NamedInConflict(result.recommendations[k].train_id) =>
                /\ result.recommendations[k].action = "proceed"
                /\ result.optimized_trains[k].scheduled_arrival
                      = InputTrain(result.recommendations[k].train_id).scheduled_arrival

\* C37: a train that receives PROCEED from the scheduler keeps its whole
\* original slot: the scheduled_arrival and the scheduled_departure of its
\* optimized train equal the original ones
C37_ProceedKeepsSlot ==
    SchedulerReturned =>
        \A k \in 1..Len(result.recommendations) :
            result.recommendations[k].action = "proceed" =>
                /\ result.optimized_trains[k].scheduled_arrival
                      = InputTrain(result.recommendations[k].train_id).scheduled_arrival
                /\ result.optimized_trains[k].scheduled_departure
                      = InputTrain(result.recommendations[k].train_id).scheduled_departure

-----------------------------------------------------------------------------
(* C38 *)

\* C38: optimize never resolves a conflict: in every successful result all
\* conflicts have is_resolved false, resolved_conflicts is 0, pending_conflicts
\* equals total_conflicts, and resolution_rate is 0 when a conflict was
\* detected and 100 when none was
C38_NothingResolved ==
    pc = "returned" /\ IsSuccess(result) =>
        /\ \A c \in 1..Len(result.conflicts) : ~result.conflicts[c].is_resolved
        /\ result.conflict_summary.total_conflicts = Len(result.conflicts)
        /\ result.conflict_summary.resolved_conflicts = 0
        /\ result.conflict_summary.pending_conflicts
              = result.conflict_summary.total_conflicts
        /\ result.metrics.conflict_metrics.total_conflicts = Len(result.conflicts)
        /\ result.metrics.conflict_metrics.resolved_conflicts = 0
        /\ LET rate == result.metrics.conflict_metrics.resolution_rate
           IN rate.num = (IF Len(result.conflicts) > 0 THEN 0 ELSE 100) * rate.den

\* the scheduler removed every overlap of two detected conflicts, and the
\* result still counts both as pending with a resolution rate of 0
C38_Witness ==
    /\ pc = "returned" /\ IsSuccess(result)
    /\ result.conflict_summary.pending_conflicts = 2
    /\ result.metrics.recommendation_metrics.delay_recommendations >= 1
    /\ result.metrics.conflict_metrics.resolution_rate.num = 0
    /\ detect_conflicts(section, result.optimized_trains) = <<>>

-----------------------------------------------------------------------------
(* C39 *)

\* C39: after set_delay(d) with d > 0, from any prior state of the train, the
\* train reports itself delayed by d minutes: its status is DELAYED, is_delayed
\* is true and delay_minutes equals d
C39_SetDelayReportsDelay ==
    result.call = "set_delay" /\ result.delay_minutes > 0 =>
        /\ trains[1].status = "DELAYED"
        /\ is_delayed(trains[1])
        /\ Train_delay_minutes(trains[1]) = result.delay_minutes

=============================================================================
